---- MODULE Spec2Model ----
(***************************************************************************)
(* A model of Ingress Maxfield (tvwenger/maxfield): the edge-placement     *)
(* policy add_link and the Field tree (maxfield/field.py), the             *)
(* backtracking Fielder (maxfield/fielder.py), the Generator pipeline      *)
(* (maxfield/generator.py), the two reorder passes (maxfield/reorder.py)   *)
(* and the renumbering done by Plan.route_agents (maxfield/plan.py,        *)
(* maxfield/router.py).                                                    *)
(*                                                                         *)
(* Portal indices are the code's 0-based indices.  Python lists are        *)
(* sequences, so a Python list index k is position k+1 here.               *)
(***************************************************************************)
EXTENDS Integers, Sequences, FiniteSets, TLC

VARIABLES
    plan,        \* the Plan object: portals_gno, perim_portals, portals_dists, portals, num_agents
    graph,       \* the networkx.DiGraph of one Generator.generate call, with its attributes
    stack,       \* the call stack of Fielder.make_fields (one frame per recursion level)
    todo,        \* the pending calls of the running build_links/build_final_links attempt
    exc,         \* the exception in flight, "none" when there is none
    ret,         \* the value a make_fields call has just returned to its caller
    pc,          \* the position of Generator.generate / Plan.route_agents
    loc,         \* the local variables of the running pass (reorder_links_origin, generate)
    assignments, \* the assignment list Router.route_agents returned
    called,      \* the add_link call that has just returned or raised, with the graph it was given
    results      \* the list of generate results Plan.optimize collects

vars == <<plan, graph, stack, todo, exc, ret, pc, loc, assignments, called, results>>

----------------------------------------------------------------------------
(* Bounds of the model.                                                    *)

\* The outgoing-link caps. The code's values are 8 and 40 (field.py:31-32);
\* the rules of add_link only compare an out-degree with the cap, and the
\* model keeps that comparison with caps small enough to be reached on the
\* four- and five-portal layouts below.
OUTGOING_LIMIT == 1
OUTGOING_LIMIT_SBUL == 3
\* The number of build attempts per candidate triangle (fielder.py:32 has 100).
N_FIELD_ATTEMPTS == 2
\* The number of block moves after which generate stops (generator.py:36 has 100).
N_REORDER_ATTEMPTS == 1

----------------------------------------------------------------------------
(* Generic helpers.                                                        *)

None == -1

Min(a, b) == IF a < b THEN a ELSE b

\* Python's s[:k]
Take(s, k) == SubSeq(s, 1, Min(k, Len(s)))

\* Python's s[k:]
Drop(s, k) == SubSeq(s, Min(k, Len(s)) + 1, Len(s))

\* Python's x in s
In(x, s) == \E k \in 1..Len(s) : s[k] = x

\* Python's s.index(x) as a position (the first occurrence)
IndexOf(s, x) == CHOOSE k \in 1..Len(s) : s[k] = x /\ \A j \in 1..(k-1) : s[j] # x

\* A Python list/array given as a tuple, indexed from 0
ZeroBased(s) == [i \in 0..(Len(s)-1) |-> s[i+1]]

\* s with its element at position k removed
RemoveAt(s, k) == SubSeq(s, 1, k-1) \o SubSeq(s, k+1, Len(s))

\* s with x inserted so that it lands at position k (Python's s.insert(k-1, x))
InsertAt(s, k, x) == SubSeq(s, 1, k-1) \o <<x>> \o SubSeq(s, k, Len(s))

\* A list comprehension: the list [f(1), ..., f(n)], built once
List(s) == SubSeq(s, 1, Len(s))

\* round(sqrt(n)) for a natural number n
RoundSqrt(n) ==
    CHOOSE r \in 0..(n+1) : (r = 0 \/ (2*r-1)*(2*r-1) <= 4*n) /\ 4*n < (2*r+1)*(2*r+1)

----------------------------------------------------------------------------
(* The Plan: portals, projected coordinates, hull, distances.              *)

\* The portal layouts the model is checked on: integer gnomonic coordinates
\* (metres), the hull vertices in scipy's counter-clockwise order, and the
\* portals' sbul flags.
\*   1: three hull portals, one interior portal (scenario S2)
\*   2: four hull portals (scenario S3)
\*   3: three hull portals, two interior portals
\*   4: four hull portals, one interior portal
\*   5: five hull portals
\*   6: four hull portals, one interior portal, every portal with the higher cap
\*   7: the portals of 1 with caps that, like the code's cap of 8, are not
\*      below the three neighbours a portal has (scenario S2)
Layouts ==
    <<  [gno |-> << <<0,0>>, <<12,0>>, <<5,9>>, <<6,3>> >>,
         perim |-> <<0, 1, 2>>,
         sbul |-> <<FALSE, TRUE, FALSE, TRUE>>],
        [gno |-> << <<0,0>>, <<8,0>>, <<9,7>>, <<1,6>> >>,
         perim |-> <<0, 1, 2, 3>>,
         sbul |-> <<TRUE, FALSE, FALSE, FALSE>>],
        [gno |-> << <<0,0>>, <<14,0>>, <<6,12>>, <<6,3>>, <<7,6>> >>,
         perim |-> <<0, 1, 2>>,
         sbul |-> <<TRUE, FALSE, FALSE, TRUE, TRUE>>],
        [gno |-> << <<0,0>>, <<10,0>>, <<10,8>>, <<0,9>>, <<3,5>> >>,
         perim |-> <<0, 1, 2, 3>>,
         sbul |-> <<TRUE, FALSE, FALSE, FALSE, TRUE>>],
        [gno |-> << <<0,0>>, <<8,0>>, <<11,6>>, <<5,10>>, <<-2,6>> >>,
         perim |-> <<0, 1, 2, 3, 4>>,
         sbul |-> <<TRUE, TRUE, TRUE, TRUE, TRUE>>],
        [gno |-> << <<0,0>>, <<10,0>>, <<10,8>>, <<0,9>>, <<3,5>> >>,
         perim |-> <<0, 1, 2, 3>>,
         sbul |-> <<TRUE, TRUE, TRUE, TRUE, TRUE>>],
        [gno |-> << <<0,0>>, <<12,0>>, <<5,9>>, <<6,3>> >>,
         perim |-> <<0, 1, 2>>,
         sbul |-> <<TRUE, TRUE, TRUE, TRUE>>]  >>

\* The plans the model is checked on: a layout and a number of agents
Inputs == { <<1, 1>>, <<1, 2>>, <<2, 1>>, <<2, 2>>, <<3, 1>>, <<3, 2>> }

\* The plan the backtracking of the Fielder is checked on
FielderInputs == { <<4, 1>> }

\* The plan the pre-build check of Field.build_links is checked on
PrecheckInputs == { <<5, 1>> }

\* The plan the routing of two agents is checked on
RouteInputs == { <<6, 2>> }

\* The plan the routing of three agents is checked on
ThreeAgentInputs == { <<6, 3>> }

\* Plan.__init__: the distance matrix (rounded to the metre, as integers), the
\* projected coordinates, the hull and the empty seed graph with the portals'
\* sbul and keys as node attributes.
Plan(layout, num_agents) ==
    LET n == Len(layout.gno)
        gno == ZeroBased(layout.gno)
        d(i, j) == RoundSqrt((gno[i][1]-gno[j][1])*(gno[i][1]-gno[j][1])
                             + (gno[i][2]-gno[j][2])*(gno[i][2]-gno[j][2]))
    IN  [portals |-> [i \in 0..(n-1) |-> [sbul |-> layout.sbul[i+1], keys |-> 0]],
         num_agents |-> num_agents,
         portals_dists |-> [i \in 0..(n-1) |-> [j \in 0..(n-1) |-> d(i, j)]],
         portals_gno |-> gno,
         perim_portals |-> layout.perim,
         graph |-> [nodes |-> [i \in 0..(n-1) |-> [sbul |-> layout.sbul[i+1], keys |-> 0]],
                    adj |-> [i \in 0..(n-1) |-> <<>>],
                    edges |-> <<>>,
                    link_order |-> <<>>,
                    firstgen_fields |-> <<>>,
                    max_keys |-> None, num_links |-> None, num_fields |-> None,
                    length |-> None, ap_portals |-> None, ap_links |-> None,
                    ap_fields |-> None, ap |-> None]]

----------------------------------------------------------------------------
(* The graph: networkx.DiGraph as the code uses it.  g.adj[u] is the list  *)
(* of u's successors in insertion order (the order graph.edges(u) iterates *)
(* in); g.edges maps each directed pair <<u, v>> to its attributes.        *)

has_edge(g, u, v) == <<u, v>> \in DOMAIN g.edges

out_degree(g, u) == Len(g.adj[u])

\* DiGraph.add_edge(u, v, **attr)
add_edge(g, u, v, attr) ==
    [g EXCEPT !.adj[u] = IF has_edge(g, u, v) THEN @ ELSE Append(@, v),
              !.edges = (<<u, v>> :> attr) @@ @]

\* DiGraph.remove_edge(u, v), for an edge that exists
remove_edge(g, u, v) ==
    [g EXCEPT !.adj[u] = SelectSeq(@, LAMBDA w : w # v),
              !.edges = [e \in (DOMAIN @) \ {<<u, v>>} |-> @[e]]]

\* The attributes add_link gives a new edge
NewLink(order, reversible) ==
    [order |-> order, reversible |-> reversible, fields |-> <<>>, depends |-> <<>>]

----------------------------------------------------------------------------
(* field.py: can_add_outbound and add_link.                                *)

\* can_add_outbound with the comparison off by one: a portal at its cap may
\* still originate a link
can_add_outbound_at_cap(g, portal) ==
    LET max_out == IF g.nodes[portal].sbul THEN OUTGOING_LIMIT_SBUL ELSE OUTGOING_LIMIT
    IN  out_degree(g, portal) <= max_out

can_add_outbound(g, portal) ==
    LET max_out == IF g.nodes[portal].sbul THEN OUTGOING_LIMIT_SBUL ELSE OUTGOING_LIMIT
    IN  out_degree(g, portal) < max_out

\* The successors of portal below their cap, whether or not the link to them
\* is reversible
ReversibleOut_any(g, portal) ==
    SelectSeq(g.adj[portal], LAMBDA r : can_add_outbound(g, r))

\* The list comprehension of add_link's "reduce" rules, filtered as np.where
\* does: the successors r of portal, in the order graph.edges(portal) lists
\* them, whose link portal->r is reversible and whose out-degree is below cap.
ReversibleOut(g, portal) ==
    SelectSeq(g.adj[portal],
              LAMBDA r : g.edges[<<portal, r>>].reversible /\ can_add_outbound(g, r))

\* What a call leaves behind: the graph and the exception it raised, if any
Returns(g) == [graph |-> g, raised |-> "none"]
Raises(g, e) == [graph |-> g, raised |-> e]

\* graph.add_edge(u, v, order=num_links, ...); graph.link_order.append((u, v))
AppendLink(g, u, v, reversible) ==
    [add_edge(g, u, v, NewLink(Len(g.link_order), reversible))
        EXCEPT !.link_order = Append(@, <<u, v>>)]

\* Rule 4 with the reversed link appended to link_order instead of replacing
\* the entry of the link it reverses
ReduceAtPortal1_appending(g, portal1, portal2, reversible) ==
    LET p2 == ReversibleOut(g, portal1)[1]
        g1 == add_edge(g, p2, portal1, g.edges[<<portal1, p2>>])
        g2 == remove_edge(g1, portal1, p2)
        old_order_idx == IndexOf(g2.link_order, <<portal1, p2>>)
        g3 == [g2 EXCEPT !.link_order = Append(RemoveAt(@, old_order_idx), <<p2, portal1>>)]
        g4 == [add_edge(g3, portal1, portal2, NewLink(Len(g.link_order), reversible))
                  EXCEPT !.link_order = Append(@, <<portal1, portal2>>)]
    IN  Returns(g4)

\* Rule 4 (field.py:121-137): reverse portal1's first reversible link, then
\* add portal1->portal2.
ReduceAtPortal1(g, portal1, portal2, reversible) ==
    LET p2 == ReversibleOut(g, portal1)[1]
        g1 == add_edge(g, p2, portal1, g.edges[<<portal1, p2>>])
        g2 == remove_edge(g1, portal1, p2)
        old_order_idx == IndexOf(g2.link_order, <<portal1, p2>>)
        g3 == [g2 EXCEPT !.link_order[old_order_idx] = <<p2, portal1>>]
        g4 == [add_edge(g3, portal1, portal2, NewLink(Len(g.link_order), reversible))
                  EXCEPT !.link_order = Append(@, <<portal1, portal2>>)]
    IN  Returns(g4)

\* Rule 5 (field.py:149-165): p1 is a successor of portal2, and the code reads
\* graph.edges[p1, portal2], the link in the other direction, which raises
\* KeyError when the graph does not hold it.
ReduceAtPortal2(g, portal1, portal2, reversible) ==
    LET p1 == ReversibleOut(g, portal2)[1]
    IN  IF ~has_edge(g, p1, portal2)
        THEN Raises(g, "KeyError")
        ELSE LET g1 == add_edge(g, portal2, p1, g.edges[<<p1, portal2>>])
                 g2 == remove_edge(g1, p1, portal2)
             IN  IF ~In(<<p1, portal2>>, g2.link_order)
                 THEN Raises(g2, "ValueError")
                 ELSE LET old_order_idx == IndexOf(g2.link_order, <<p1, portal2>>)
                          g3 == [g2 EXCEPT !.link_order[old_order_idx] = <<portal2, p1>>]
                          g4 == [add_edge(g3, portal2, portal1,
                                          NewLink(Len(g.link_order), reversible))
                                    EXCEPT !.link_order = Append(@, <<portal2, portal1>>)]
                      IN  Returns(g4)

\* add_link trying the reverse direction before the direction asked for
add_link_reverse_first(g, portal1, portal2, reversible) ==
    IF has_edge(g, portal1, portal2) \/ has_edge(g, portal2, portal1)
    THEN Returns(g)
    ELSE IF reversible /\ can_add_outbound(g, portal2)
    THEN Returns(AppendLink(g, portal2, portal1, reversible))
    ELSE IF can_add_outbound(g, portal1)
    THEN Returns(AppendLink(g, portal1, portal2, reversible))
    ELSE IF Len(ReversibleOut(g, portal1)) > 0
    THEN ReduceAtPortal1(g, portal1, portal2, reversible)
    ELSE IF reversible /\ Len(ReversibleOut(g, portal2)) > 0
    THEN ReduceAtPortal2(g, portal1, portal2, reversible)
    ELSE Raises(g, "DeadendError")

\* add_link giving up without trying to free an outgoing slot at portal1
add_link_no_reduce(g, portal1, portal2, reversible) ==
    IF has_edge(g, portal1, portal2) \/ has_edge(g, portal2, portal1)
    THEN Returns(g)
    ELSE IF can_add_outbound(g, portal1)
    THEN Returns(AppendLink(g, portal1, portal2, reversible))
    ELSE IF reversible /\ can_add_outbound(g, portal2)
    THEN Returns(AppendLink(g, portal2, portal1, reversible))
    ELSE IF reversible /\ Len(ReversibleOut(g, portal2)) > 0
    THEN ReduceAtPortal2(g, portal1, portal2, reversible)
    ELSE Raises(g, "DeadendError")

add_link(g, portal1, portal2, reversible) ==
    IF has_edge(g, portal1, portal2) \/ has_edge(g, portal2, portal1)
    THEN Returns(g)
    ELSE IF can_add_outbound(g, portal1)
    THEN Returns(AppendLink(g, portal1, portal2, reversible))
    ELSE IF reversible /\ can_add_outbound(g, portal2)
    THEN Returns(AppendLink(g, portal2, portal1, reversible))
    ELSE IF Len(ReversibleOut(g, portal1)) > 0
    THEN ReduceAtPortal1(g, portal1, portal2, reversible)
    ELSE IF reversible /\ Len(ReversibleOut(g, portal2)) > 0
    THEN ReduceAtPortal2(g, portal1, portal2, reversible)
    ELSE Raises(g, "DeadendError")

----------------------------------------------------------------------------
(* fielder.py: Fielder.reset.                                              *)

\* for link in link_order[num_links:]: graph.remove_edge(link[0], link[1])
RECURSIVE RemoveLinks(_, _)
RemoveLinks(g, links) ==
    IF links = <<>> THEN g
    ELSE RemoveLinks(remove_edge(g, Head(links)[1], Head(links)[2]), Tail(links))

\* A reset that leaves the first link of the abandoned attempt in the graph
Fielder_reset_leaves_link(g, num_links, num_firstgen) ==
    [RemoveLinks(g, Drop(g.link_order, num_links + 1))
        EXCEPT !.link_order = Take(@, num_links + 1),
               !.firstgen_fields = Take(@, num_firstgen)]

\* A reset that also removes the last link made before the snapshot
Fielder_reset_one_more(g, num_links, num_firstgen) ==
    LET keep == IF num_links > 0 THEN num_links - 1 ELSE 0
    IN  [RemoveLinks(g, Drop(g.link_order, keep))
            EXCEPT !.link_order = Take(@, keep),
                   !.firstgen_fields = Take(@, num_firstgen)]

Fielder_reset(g, num_links, num_firstgen) ==
    [RemoveLinks(g, Drop(g.link_order, num_links))
        EXCEPT !.link_order = Take(@, num_links),
               !.firstgen_fields = Take(@, num_firstgen)]

----------------------------------------------------------------------------
(* field.py: the Field object.  vertices[1] is the anchor (the code's      *)
(* vertices[0]); children[1..3] are the code's children[0..2].             *)

Field(vertices, exterior) ==
    [vertices |-> vertices, exterior |-> exterior,
     children |-> <<>>, contents |-> <<>>, splitter |-> None]

\* Field.get_contents: the portals strictly inside the triangle, by signed
\* barycentric coordinates; area2 is twice the code's area.
get_contents(vertices, portals_gno) ==
    LET x(k) == portals_gno[vertices[k+1]][1]
        y(k) == portals_gno[vertices[k+1]][2]
        area2 == (0 - y(1)*x(2)) + y(0)*((0 - x(1)) + x(2)) + x(0)*(y(1) - y(2)) + x(1)*y(2)
        sign == IF area2 < 0 THEN -1 ELSE 1
        s_parts == << y(0)*x(2) - x(0)*y(2), y(2) - y(0), x(0) - x(2) >>
        t_parts == << x(0)*y(1) - y(0)*x(1), y(0) - y(1), x(1) - x(0) >>
        sbary(i) == sign*(s_parts[1] + s_parts[2]*portals_gno[i][1]
                          + s_parts[3]*portals_gno[i][2])
        tbary(i) == sign*(t_parts[1] + t_parts[2]*portals_gno[i][1]
                          + t_parts[3]*portals_gno[i][2])
        n == Cardinality(DOMAIN portals_gno)
    IN  SelectSeq([k \in 1..n |-> k-1],
                  LAMBDA i : /\ ~In(i, vertices)
                             /\ sbary(i) > 0
                             /\ tbary(i) > 0
                             /\ sbary(i) + tbary(i) < area2*sign)

\* Field.split, with the interior portal np.random.choice drew
split(fld, splitter) ==
    [fld EXCEPT !.splitter = splitter,
                !.children = << Field(<<splitter, fld.vertices[2], fld.vertices[3]>>, TRUE),
                                Field(<<fld.vertices[1], fld.vertices[2], splitter>>, FALSE),
                                Field(<<fld.vertices[1], fld.vertices[3], splitter>>, FALSE) >>]

\* The field at a path of child positions under fld, and fld with that field replaced
RECURSIVE FieldAt(_, _)
FieldAt(fld, path) ==
    IF path = <<>> THEN fld ELSE FieldAt(fld.children[Head(path)], Tail(path))

RECURSIVE WithFieldAt(_, _, _)
WithFieldAt(fld, path, sub) ==
    IF path = <<>> THEN sub
    ELSE [fld EXCEPT !.children[Head(path)] = WithFieldAt(@, Tail(path), sub)]

----------------------------------------------------------------------------
(* The calls in progress.                                                  *)

\* A pending call of the running build: Field.build_links or
\* Field.build_final_links on the field at path under the root field of the
\* attempt, or add_link(graph, p, q, reversible).
Call(op, path, p, q, reversible) ==
    [op |-> op, path |-> path, p |-> p, q |-> q, reversible |-> reversible]

\* fld.build_links(graph, portals_gno); fld.build_final_links(graph, portals_gno)
BuildCalls ==
    << Call("build_links", <<>>, None, None, FALSE),
       Call("build_final_links", <<>>, None, None, FALSE) >>

\* A frame of Fielder.make_fields: its argument and its local variables.
\* remaining holds the positions of the permutation not yet looped over;
\* snapshot is the graph as it was when num_links and num_firstgen were read.
Frame(perim_portals) ==
    [perim_portals |-> perim_portals, num_links |-> 0, num_firstgen |-> 0,
     remaining |-> {}, i |-> 0, fld |-> Field(<<>>, TRUE), attempt |-> 0,
     at |-> "enter", snapshot |-> <<>>]

\* No add_link call has just returned
NoCall == [op |-> "none"]

Top == stack[Len(stack)]

WithTop(frame) == [stack EXCEPT ![Len(stack)] = frame]

Fielding == pc = "make_fields" /\ stack # <<>> /\ exc = "none"

\* The orders np.random.permutation can give three vertices
Permutations3(a, b, c) ==
    { <<a, b, c>>, <<a, c, b>>, <<b, a, c>>, <<b, c, a>>, <<c, a, b>>, <<c, b, a>> }

----------------------------------------------------------------------------
(* fielder.py: Fielder.make_fields.                                        *)

\* Lines 99-116: the base case, or the snapshot of the graph's sizes
MakeFieldsEnter ==
    /\ Fielding /\ Top.at = "enter"
    /\ IF Len(Top.perim_portals) < 3
       THEN /\ stack' = Take(stack, Len(stack) - 1)
            /\ ret' = "True"
       ELSE /\ stack' = WithTop([Top EXCEPT !.num_links = Len(graph.link_order),
                                            !.num_firstgen = Len(graph.firstgen_fields),
                                            !.remaining = 1..Len(Top.perim_portals),
                                            !.at = "loop",
                                            !.snapshot = graph])
            /\ ret' = ret
    /\ UNCHANGED <<plan, graph, todo, exc, pc, loc, assignments, results>>
    /\ called' = NoCall

\* Lines 120-126: the next perimeter portal of the random permutation, and
\* the exterior field of it and its two neighbours with a random anchor
MakeFieldsCandidate ==
    /\ Fielding /\ Top.at = "loop"
    /\ \E k \in Top.remaining :
         LET perim == Top.perim_portals
             num_perim == Len(perim)
             before == IF k = 1 THEN num_perim ELSE k - 1
             after == IF k = num_perim THEN 1 ELSE k + 1
         IN  \E vertices \in Permutations3(perim[k], perim[before], perim[after]) :
                stack' = WithTop([Top EXCEPT !.remaining = @ \ {k},
                                             !.i = k,
                                             !.fld = Field(vertices, TRUE),
                                             !.attempt = 0,
                                             !.at = "try"])
    /\ todo' = BuildCalls
    /\ UNCHANGED <<plan, graph, exc, ret, pc, loc, assignments, results>>
    /\ called' = NoCall

\* Lines 157-160: the permutation is used up, there was no solution
MakeFieldsNoSolution ==
    /\ Fielding /\ Top.at = "loop" /\ Top.remaining = {}
    /\ stack' = Take(stack, Len(stack) - 1)
    /\ ret' = "False"
    /\ UNCHANGED <<plan, graph, todo, exc, pc, loc, assignments, results>>
    /\ called' = NoCall

\* field.py:277-324, Field.build_links on the field at the head call's path
BuildLinks ==
    /\ Fielding /\ Top.at = "try" /\ todo # <<>> /\ Head(todo).op = "build_links"
    /\ LET path == Head(todo).path
           fld == FieldAt(Top.fld, path)
           v == fld.vertices
           completed == /\ (has_edge(graph, v[1], v[2]) \/ has_edge(graph, v[2], v[1]))
                        /\ (has_edge(graph, v[1], v[3]) \/ has_edge(graph, v[3], v[1]))
           contents == IF fld.contents = <<>>
                       THEN get_contents(v, plan.portals_gno)
                       ELSE fld.contents
       IN  IF completed
           THEN /\ exc' = "DeadendError"
                /\ UNCHANGED <<stack, todo, results>>
           ELSE /\ exc' = exc
                /\ \E splitter \in (IF contents = <<>> THEN {None}
                                    ELSE {contents[k] : k \in 1..Len(contents)}) :
                     LET found == [fld EXCEPT !.contents = contents]
                         built == IF contents = <<>> THEN found ELSE split(found, splitter)
                     IN  /\ stack' = WithTop([Top EXCEPT !.fld = WithFieldAt(@, path, built)])
                         /\ todo' = (IF built.children = <<>>
                                     THEN << Call("add_link", <<>>, v[3], v[2], TRUE) >>
                                     ELSE << Call("build_links", Append(path, 1), None, None, FALSE),
                                             Call("build_final_links", Append(path, 1), None, None, FALSE),
                                             Call("build_links", Append(path, 2), None, None, FALSE),
                                             Call("build_links", Append(path, 3), None, None, FALSE) >>)
                                    \o Tail(todo)
    /\ UNCHANGED <<plan, graph, ret, pc, loc, assignments, results>>
    /\ called' = NoCall

\* A build_final_links whose jet links originate at the first vertex of an
\* exterior field as they do for the other fields
BuildFinalLinks_outward ==
    /\ Fielding /\ Top.at = "try" /\ todo # <<>> /\ Head(todo).op = "build_final_links"
    /\ LET path == Head(todo).path
           fld == FieldAt(Top.fld, path)
           v == fld.vertices
           jets == << Call("add_link", <<>>, v[1], v[2], fld.exterior),
                      Call("add_link", <<>>, v[1], v[3], fld.exterior) >>
           below == IF fld.children = <<>> THEN <<>>
                    ELSE << Call("build_final_links", Append(path, 2), None, None, FALSE),
                            Call("build_final_links", Append(path, 3), None, None, FALSE) >>
       IN  todo' = jets \o below \o Tail(todo)
    /\ UNCHANGED <<plan, graph, stack, exc, ret, pc, loc, assignments, results>>
    /\ called' = NoCall

\* field.py:326-360, Field.build_final_links on the field at the head call's path
BuildFinalLinks ==
    /\ Fielding /\ Top.at = "try" /\ todo # <<>> /\ Head(todo).op = "build_final_links"
    /\ LET path == Head(todo).path
           fld == FieldAt(Top.fld, path)
           v == fld.vertices
           jets == IF fld.exterior
                   THEN << Call("add_link", <<>>, v[2], v[1], TRUE),
                           Call("add_link", <<>>, v[3], v[1], TRUE) >>
                   ELSE << Call("add_link", <<>>, v[1], v[2], FALSE),
                           Call("add_link", <<>>, v[1], v[3], FALSE) >>
           below == IF fld.children = <<>> THEN <<>>
                    ELSE << Call("build_final_links", Append(path, 2), None, None, FALSE),
                            Call("build_final_links", Append(path, 3), None, None, FALSE) >>
       IN  todo' = jets \o below \o Tail(todo)
    /\ UNCHANGED <<plan, graph, stack, exc, ret, pc, loc, assignments, results>>
    /\ called' = NoCall

\* field.py:61-169, the add_link call at the head of the pending calls
AddLink ==
    /\ Fielding /\ Top.at = "try" /\ todo # <<>> /\ Head(todo).op = "add_link"
    /\ LET call == Head(todo)
           result == add_link(graph, call.p, call.q, call.reversible)
       IN  /\ graph' = result.graph
           /\ exc' = result.raised
           /\ todo' = IF result.raised = "none" THEN Tail(todo) ELSE todo
           /\ called' = [op |-> "add_link", p |-> call.p, q |-> call.q,
                         reversible |-> call.reversible, graph |-> graph]
    /\ UNCHANGED <<plan, stack, ret, pc, loc, assignments, results>>

\* make_fields without the except clause: the DeadendError leaves the call
MakeFieldsDeadend_uncaught ==
    /\ pc = "make_fields" /\ stack # <<>> /\ exc = "DeadendError"
    /\ pc' = "raised"
    /\ stack' = <<>>
    /\ todo' = <<>>
    /\ UNCHANGED <<plan, graph, exc, ret, loc, assignments, results>>
    /\ called' = NoCall

\* Lines 137-141: except DeadendError: reset, and try again or, after
\* _N_FIELD_ATTEMPTS failures, move on to the next permutation
MakeFieldsDeadend ==
    /\ pc = "make_fields" /\ stack # <<>> /\ exc = "DeadendError"
    /\ graph' = Fielder_reset(graph, Top.num_links, Top.num_firstgen)
    /\ exc' = "none"
    /\ IF Top.attempt + 1 < N_FIELD_ATTEMPTS
       THEN /\ stack' = WithTop([Top EXCEPT !.attempt = @ + 1])
            /\ todo' = BuildCalls
       ELSE /\ stack' = WithTop([Top EXCEPT !.attempt = @ + 1, !.at = "loop"])
            /\ todo' = <<>>
    /\ UNCHANGED <<plan, ret, pc, loc, assignments, results>>
    /\ called' = NoCall

\* Lines 146-148: the build succeeded; recurse on the perimeter without portal i
MakeFieldsRecurse ==
    /\ Fielding /\ Top.at = "try" /\ todo = <<>>
    /\ LET perim == Top.perim_portals
           new_perim_portals == SelectSeq(perim, LAMBDA x : x # perim[Top.i])
       IN  stack' = Append(WithTop([Top EXCEPT !.at = "recursion"]),
                           Frame(new_perim_portals))
    /\ UNCHANGED <<plan, graph, todo, exc, ret, pc, loc, assignments, results>>
    /\ called' = NoCall

\* Lines 148-156: the recursive call returned
MakeFieldsReturned ==
    /\ Fielding /\ Top.at = "recursion" /\ ret # "none"
    /\ IF ret = "False"
       THEN /\ graph' = Fielder_reset(graph, Top.num_links, Top.num_firstgen)
            /\ stack' = WithTop([Top EXCEPT !.at = "loop"])
            /\ ret' = "none"
       ELSE /\ graph' = [graph EXCEPT !.firstgen_fields = Append(@, Top.fld)]
            /\ stack' = Take(stack, Len(stack) - 1)
            /\ ret' = "True"
    /\ UNCHANGED <<plan, todo, exc, pc, loc, assignments, results>>
    /\ called' = NoCall

----------------------------------------------------------------------------
(* field.py: Field.assign_fields_to_links, and generator.py: reset.        *)
(* An entry of depends is a link <<u, v>> or, for a portal u, <<u>>.       *)

\* The position of the least value instead of the greatest
argmin(a) ==
    CHOOSE k \in 1..Len(a) :
        /\ \A j \in 1..Len(a) : a[k] <= a[j]
        /\ \A j \in 1..(k-1) : a[k] < a[j]

\* np.argmax: the first position of the greatest value
argmax(a) ==
    CHOOSE k \in 1..Len(a) :
        /\ \A j \in 1..Len(a) : a[j] <= a[k]
        /\ \A j \in 1..(k-1) : a[j] < a[k]

RECURSIVE assign_fields_to_links(_, _)
RECURSIVE AssignAll(_, _)

\* for fld in flds: fld.assign_fields_to_links(graph)
AssignAll(flds, g) ==
    IF flds = <<>> THEN Returns(g)
    ELSE LET first == assign_fields_to_links(Head(flds), g)
         IN  IF first.raised # "none" THEN first ELSE AssignAll(Tail(flds), first.graph)

assign_fields_to_links(fld, g) ==
    LET v == fld.vertices
        \* itertools.permutations(self.vertices, 2)
        pairs == << <<v[1], v[2]>>, <<v[1], v[3]>>, <<v[2], v[1]>>,
                    <<v[2], v[3]>>, <<v[3], v[1]>>, <<v[3], v[2]>> >>
        links == SelectSeq(pairs, LAMBDA link : has_edge(g, link[1], link[2]))
    IN  IF Len(links) # 3
        THEN Raises(g, "ValueError")
        ELSE LET link_orders == [k \in 1..3 |-> g.edges[links[k]].order]
                 lastlink == links[argmax(link_orders)]
                 g1 == [g EXCEPT !.edges[lastlink].fields = Append(@, v)]
                 others == RemoveAt(links, argmax(link_orders))
                 opposite == SelectSeq(links, LAMBDA link : ~In(v[1], link))
                 g2 == IF ~fld.exterior
                       THEN [g1 EXCEPT !.edges[lastlink].depends = @ \o others]
                       ELSE IF fld.children # <<>>
                       THEN [g1 EXCEPT !.edges[lastlink].depends = Append(@, opposite[1])]
                       ELSE g1
                 below == AssignAll(fld.children, g2)
             IN  IF below.raised # "none"
                 THEN below
                 ELSE Returns([below.graph EXCEPT !.edges[lastlink].depends =
                                  @ \o [k \in 1..Len(fld.contents) |-> <<fld.contents[k]>>]])

\* generator.reset(graph)
reset(g) ==
    AssignAll(g.firstgen_fields,
              [g EXCEPT !.edges = [link \in DOMAIN @ |->
                                      [@[link] EXCEPT !.depends = <<>>, !.fields = <<>>]]])

----------------------------------------------------------------------------
(* reorder.py.  The positions i, j and the block size are the code's       *)
(* 0-based values; a list element at Python index k is s[k+1].             *)

\* [link for _, link in sorted(zip(link_orders, list(graph.edges)))]
OrderedLinks(g) ==
    LET E == DOMAIN g.edges
        before(a, b) == \/ g.edges[a].order < g.edges[b].order
                        \/ /\ g.edges[a].order = g.edges[b].order
                           /\ (a[1] < b[1] \/ (a[1] = b[1] /\ a[2] < b[2]))
    IN  List([k \in 1..Cardinality(E) |->
                 CHOOSE a \in E : Cardinality({b \in E : before(b, a)}) = k - 1])

\* The renumbering counting from 1 instead of 0
SetOrders_from_one(g, ordered_links) ==
    [g EXCEPT !.edges = [link \in DOMAIN @ |->
        IF In(link, ordered_links)
        THEN [@[link] EXCEPT !.order = IndexOf(ordered_links, link)]
        ELSE @[link]]]

\* for order, link in enumerate(ordered_links): graph.edges[link]['order'] = order
SetOrders(g, ordered_links) ==
    [g EXCEPT !.edges = [link \in DOMAIN @ |->
        IF In(link, ordered_links)
        THEN [@[link] EXCEPT !.order =
                 (CHOOSE k \in 1..Len(ordered_links) :
                     ordered_links[k] = link
                     /\ \A j \in (k+1)..Len(ordered_links) : ordered_links[j] # link) - 1]
        ELSE @[link]]]

RECURSIVE SumSeq(_)
SumSeq(s) == IF s = <<>> THEN 0 ELSE Head(s) + SumSeq(Tail(s))

\* The walking distance along a list of links: between consecutive origins
PathLength(ordered_links, portals_dists) ==
    SumSeq([k \in 1..(Len(ordered_links) - 1) |->
               portals_dists[ordered_links[k][1]][ordered_links[k+1][1]]])

get_path_length(g, portals_dists) == PathLength(OrderedLinks(g), portals_dists)

\* The turn that moves the link to the front of the list instead of the
\* place of the first link with its origin
ReorderOriginTurn_to_front(g, ordered_links, i) ==
    LET link == ordered_links[i+1]
        origin_at(portal) == { j \in 0..(Len(ordered_links)-1) : ordered_links[j+1][1] = portal }
        least(S) == CHOOSE j \in S : \A k \in S : j <= k
        move(list, to) == InsertAt(RemoveAt(list, i+1), to+1, list[i+1])
        first == least(origin_at(link[1]))
        first_rev == origin_at(link[2])
    IN  IF g.edges[link].fields # <<>>
        THEN [graph |-> g, ordered_links |-> ordered_links]
        ELSE IF first < i
        THEN [graph |-> g, ordered_links |-> move(ordered_links, 0)]
        ELSE IF /\ g.edges[link].reversible
                /\ first_rev # {}
                /\ least(first_rev) < i
                /\ can_add_outbound(g, link[2])
        THEN LET g1 == add_edge(g, link[2], link[1], g.edges[link])
                 g2 == remove_edge(g1, link[1], link[2])
                 reversed == [ordered_links EXCEPT ![i+1] = <<link[2], link[1]>>]
             IN  [graph |-> g2, ordered_links |-> move(reversed, 0)]
        ELSE [graph |-> g, ordered_links |-> ordered_links]

\* One turn of the loop of reorder_links_origin (lines 56-92) on the link at
\* index i of ordered_links; gives the graph and the list after the turn.
ReorderOriginTurn(g, ordered_links, i) ==
    LET link == ordered_links[i+1]
        origin_at(portal) == { j \in 0..(Len(ordered_links)-1) : ordered_links[j+1][1] = portal }
        least(S) == CHOOSE j \in S : \A k \in S : j <= k
        move(list, to) == InsertAt(RemoveAt(list, i+1), to+1, list[i+1])
        first == least(origin_at(link[1]))
        first_rev == origin_at(link[2])
    IN  IF g.edges[link].fields # <<>>
        THEN [graph |-> g, ordered_links |-> ordered_links]
        ELSE IF first < i
        THEN [graph |-> g, ordered_links |-> move(ordered_links, first)]
        ELSE IF /\ g.edges[link].reversible
                /\ first_rev # {}
                /\ least(first_rev) < i
                /\ can_add_outbound(g, link[2])
        THEN LET g1 == add_edge(g, link[2], link[1], g.edges[link])
                 g2 == remove_edge(g1, link[1], link[2])
                 reversed == [ordered_links EXCEPT ![i+1] = <<link[2], link[1]>>]
             IN  [graph |-> g2, ordered_links |-> move(reversed, least(first_rev))]
        ELSE [graph |-> g, ordered_links |-> ordered_links]

\* Whether the link at index a depends on the link at index b
DependsOn(ordered_links, ordered_links_depends, a, b) ==
    \/ In(ordered_links[b+1], ordered_links_depends[a+1])
    \/ In(<<ordered_links[b+1][1]>>, ordered_links_depends[a+1])

\* The search that tests the edge-style entries of depends only
find_good_depends_edge_style(ordered_links, ordered_links_depends, i, size) ==
    LET n == Len(ordered_links)
        block == i..(i+size-1)
        conflict(a, b) == In(ordered_links[b+1], ordered_links_depends[a+1])
        left == { j \in 0..(i-1) : \A m \in j..(i-1) : \A k \in block : ~conflict(k, m) }
        right == { j \in (i+size)..(n-1) : \A m \in (i+size)..j : \A k \in block : ~conflict(m, k) }
    IN  left \cup right

find_good_depends(ordered_links, ordered_links_depends, i, size) ==
    LET n == Len(ordered_links)
        block == i..(i+size-1)
        conflict_left(j) == \E k \in block :
                               /\ ordered_links_depends[k+1] # <<>>
                               /\ DependsOn(ordered_links, ordered_links_depends, k, j)
        conflict_right(j) == /\ ordered_links_depends[j+1] # <<>>
                             /\ \E k \in block :
                                   DependsOn(ordered_links, ordered_links_depends, j, k)
        left == { j \in 0..(i-1) : \A m \in j..(i-1) : ~conflict_left(m) }
        right == { j \in (i+size)..(n-1) : \A m \in (i+size)..j : ~conflict_right(m) }
    IN  left \cup right

\* The length without the step that joins the two neighbours of the block
calc_new_length_no_join(ordered_links, portals_dists, original_length, i, size, j) ==
    LET n == Len(ordered_links)
        d(a, b) == portals_dists[ordered_links[a+1][1]][ordered_links[b+1][1]]
        removed == (IF i > 0 THEN d(i-1, i) ELSE 0)
                   + (IF i + size < n THEN d(i+size-1, i+size) ELSE 0)
                   + (IF 0 < j /\ j < i THEN d(j-1, j) ELSE 0)
                   + (IF i < j /\ j < n - 1 THEN d(j, j+1) ELSE 0)
        added == (IF 0 < j /\ j < i THEN d(j-1, i) ELSE 0)
                 + (IF j < i THEN d(i+size-1, j) ELSE 0)
                 + (IF i < j /\ j < n - 1 THEN d(i+size-1, j+1) ELSE 0)
                 + (IF i < j THEN d(j, i) ELSE 0)
    IN  original_length - removed + added

calc_new_length(ordered_links, portals_dists, original_length, i, size, j) ==
    LET n == Len(ordered_links)
        d(a, b) == portals_dists[ordered_links[a+1][1]][ordered_links[b+1][1]]
        removed == (IF i > 0 THEN d(i-1, i) ELSE 0)
                   + (IF i + size < n THEN d(i+size-1, i+size) ELSE 0)
                   + (IF 0 < j /\ j < i THEN d(j-1, j) ELSE 0)
                   + (IF i < j /\ j < n - 1 THEN d(j, j+1) ELSE 0)
        added == (IF 0 < i /\ i < n - size THEN d(i-1, i+size) ELSE 0)
                 + (IF 0 < j /\ j < i THEN d(j-1, i) ELSE 0)
                 + (IF j < i THEN d(i+size-1, j) ELSE 0)
                 + (IF i < j /\ j < n - 1 THEN d(i+size-1, j+1) ELSE 0)
                 + (IF i < j THEN d(j, i) ELSE 0)
    IN  original_length - removed + added

\* Lines 343-354: the list with the block of size links at i moved to j
MoveBlock(ordered_links, i, size, j) ==
    LET n == Len(ordered_links)
        moving_links == SubSeq(ordered_links, i+1, i+size)
    IN  IF j < i
        THEN SubSeq(ordered_links, 1, j) \o moving_links
             \o SubSeq(ordered_links, j+1, i) \o SubSeq(ordered_links, i+size+1, n)
        ELSE SubSeq(ordered_links, 1, i) \o SubSeq(ordered_links, i+size+1, j+1)
             \o moving_links \o SubSeq(ordered_links, j+2, n)

\* The moves <<size, i, j>> the loops of reorder_links_depends would commit
ImprovingMoves(ordered_links, ordered_links_depends, portals_dists) ==
    LET n == Len(ordered_links)
        original_length == PathLength(ordered_links, portals_dists)
        origin(k) == ordered_links[k+1][1]
        skipped(size, i) ==
            LET same_origin == origin(i) = origin(i+size-1)
                same_before == i > 0 /\ origin(i-1) = origin(i)
                same_after == i + size + 1 < n /\ origin(i+size+1) = origin(i)
            IN  same_origin /\ (same_before \/ same_after)
    IN  { m \in (1..(n \div 4)) \X (0..(n-1)) \X (0..(n-1)) :
            /\ m[2] <= n - m[1]
            /\ ~skipped(m[1], m[2])
            /\ m[3] \in find_good_depends(ordered_links, ordered_links_depends, m[2], m[1])
            /\ calc_new_length(ordered_links, portals_dists, original_length,
                               m[2], m[1], m[3]) < original_length }

\* reorder_links_depends: commits the first improving move in loop order
\* (size, then i, then j ascending) and returns True, or returns False
reorder_links_depends(g, portals_dists) ==
    LET ordered_links == OrderedLinks(g)
        ordered_links_depends == List([k \in 1..Len(ordered_links) |->
                                          g.edges[ordered_links[k]].depends])
        moves == ImprovingMoves(ordered_links, ordered_links_depends, portals_dists)
        earlier(a, b) == \/ a[1] < b[1]
                         \/ a[1] = b[1] /\ a[2] < b[2]
                         \/ a[1] = b[1] /\ a[2] = b[2] /\ a[3] <= b[3]
    IN  IF moves = {}
        THEN [graph |-> g, moved |-> FALSE]
        ELSE LET m == CHOOSE a \in moves : \A b \in moves : earlier(a, b)
             IN  [graph |-> SetOrders(g, MoveBlock(ordered_links, m[2], m[1], m[3])),
                  moved |-> TRUE]

----------------------------------------------------------------------------
(* generator.py: Generator.generate after the make_fields call.            *)

\* An exception other than DeadendError is caught nowhere: it leaves
\* make_fields, generate and optimize
MakeFieldsRaises ==
    /\ pc = "make_fields" /\ exc \notin {"none", "DeadendError"}
    /\ pc' = "raised"
    /\ stack' = <<>>
    /\ todo' = <<>>
    /\ UNCHANGED <<plan, graph, exc, ret, loc, assignments, results>>
    /\ called' = NoCall

\* Lines 110-114: make_fields returned False, generate returns the tuple
\* (inf, nan, nan, inf)
GenerateNoSolution ==
    /\ pc = "make_fields" /\ stack = <<>> /\ exc = "none" /\ ret = "False"
    /\ pc' = "no_solution"
    /\ UNCHANGED <<plan, graph, stack, todo, exc, ret, loc, assignments, results>>
    /\ called' = NoCall

\* Lines 118-119: for fld in graph.firstgen_fields: fld.assign_fields_to_links(graph)
GenerateAssignFields ==
    /\ pc = "make_fields" /\ stack = <<>> /\ exc = "none" /\ ret = "True"
    /\ LET result == AssignAll(graph.firstgen_fields, graph)
       IN  /\ graph' = result.graph
           /\ exc' = result.raised
           /\ pc' = IF result.raised = "none" THEN "reorder_links_origin" ELSE "raised"
    /\ UNCHANGED <<plan, stack, todo, ret, loc, assignments, results>>
    /\ called' = NoCall

\* reorder.py:50-51, the entry of reorder_links_origin (generator.py:124)
ReorderLinksOriginEnter ==
    /\ pc = "reorder_links_origin"
    /\ loc' = [loc EXCEPT !.ordered_links = OrderedLinks(graph), !.i = 0]
    /\ pc' = "reorder_links_origin_loop"
    /\ UNCHANGED <<plan, graph, stack, todo, exc, ret, assignments, results>>
    /\ called' = NoCall

\* reorder.py:56-92, one turn of the loop over ordered_links
ReorderLinksOriginTurn ==
    /\ pc = "reorder_links_origin_loop" /\ loc.i < Len(loc.ordered_links)
    /\ LET turn == ReorderOriginTurn(graph, loc.ordered_links, loc.i)
       IN  /\ graph' = turn.graph
           /\ loc' = [loc EXCEPT !.ordered_links = turn.ordered_links, !.i = @ + 1]
    /\ UNCHANGED <<plan, stack, todo, exc, ret, pc, assignments, results>>
    /\ called' = NoCall

\* reorder.py:96-97, the orders are written back; generator.py:129, reset(graph);
\* generator.py:135, num_tries = 0
ReorderLinksOriginExit ==
    /\ pc = "reorder_links_origin_loop" /\ loc.i = Len(loc.ordered_links)
    /\ graph' = SetOrders(graph, loc.ordered_links)
    /\ pc' = "reset"
    /\ UNCHANGED <<plan, stack, todo, exc, ret, loc, assignments, results>>
    /\ called' = NoCall

\* generator.py:129 and 135: reset(graph); num_tries = 0
GenerateReset ==
    /\ pc = "reset"
    /\ LET result == reset(graph)
       IN  /\ graph' = result.graph
           /\ exc' = result.raised
           /\ pc' = IF result.raised = "none" THEN "reorder_links_depends" ELSE "raised"
    /\ loc' = [loc EXCEPT !.num_tries = 0, !.moved = FALSE]
    /\ UNCHANGED <<plan, stack, todo, ret, assignments, results>>
    /\ called' = NoCall

\* generator.py:136-137, the condition of the while loop: the call of
\* reorder_links_depends, which commits a move when it returns True, and
\* then the test of num_tries
GenerateReorderLinksDepends ==
    /\ pc = "reorder_links_depends"
    /\ LET result == reorder_links_depends(graph, plan.portals_dists)
       IN  /\ graph' = result.graph
           /\ loc' = [loc EXCEPT !.moved = result.moved]
           /\ pc' = IF result.moved /\ loc.num_tries < N_REORDER_ATTEMPTS
                    THEN "reset_after_move" ELSE "finish"
    /\ UNCHANGED <<plan, stack, todo, exc, ret, assignments, results>>
    /\ called' = NoCall

\* generator.py:142-143, the body of the while loop
GenerateResetAfterMove ==
    /\ pc = "reset_after_move"
    /\ LET result == reset(graph)
       IN  /\ graph' = result.graph
           /\ exc' = result.raised
           /\ pc' = IF result.raised = "none" THEN "reorder_links_depends" ELSE "raised"
    /\ loc' = [loc EXCEPT !.num_tries = @ + 1]
    /\ UNCHANGED <<plan, stack, todo, ret, assignments, results>>
    /\ called' = NoCall

AP_PER_PORTAL == 1750
AP_PER_LINK == 313
AP_PER_FIELD == 1250

\* generator.py:147-168, the attributes of the returned graph
GenerateFinish ==
    /\ pc = "finish"
    /\ LET links == DOMAIN graph.edges
           keys_needed(i) == Cardinality({link \in links : link[2] = i}) - plan.portals[i].keys
           num_links == Cardinality(links)
           num_fields == SumSeq([k \in 1..Len(OrderedLinks(graph)) |->
                                    Len(graph.edges[OrderedLinks(graph)[k]].fields)])
           ap_portals == AP_PER_PORTAL * Cardinality(DOMAIN plan.portals_gno)
       IN  graph' = [graph EXCEPT
                        !.max_keys = CHOOSE m \in {keys_needed(i) : i \in DOMAIN plan.portals} :
                                        \A i \in DOMAIN plan.portals : keys_needed(i) <= m,
                        !.num_links = num_links,
                        !.num_fields = num_fields,
                        !.length = get_path_length(graph, plan.portals_dists),
                        !.ap_portals = ap_portals,
                        !.ap_links = AP_PER_LINK * num_links,
                        !.ap_fields = AP_PER_FIELD * num_fields,
                        !.ap = ap_portals + AP_PER_LINK * num_links + AP_PER_FIELD * num_fields]
    /\ pc' = "generated"
    /\ UNCHANGED <<plan, stack, todo, exc, ret, loc, assignments, results>>
    /\ called' = NoCall

----------------------------------------------------------------------------
(* plan.py: Plan.optimize and Plan.route_agents; router.py: Router.        *)

WALKSPEED == 1
COMMTIME == 30
LINKTIME == 30

\* plan.py:142-177 with num_field_iterations = 1: the one result is the best
PlanOptimize ==
    /\ pc = "generated"
    /\ plan' = [plan EXCEPT !.graph = graph]
    /\ pc' = "optimized"
    /\ UNCHANGED <<graph, stack, todo, exc, ret, loc, assignments, results>>
    /\ called' = NoCall

\* plan.py:173-176: the sort key reads result.ap, which the tuple generate
\* returns for a plan without solution does not have
PlanOptimizeRaises ==
    /\ pc = "no_solution"
    /\ exc' = "AttributeError"
    /\ pc' = "raised"
    /\ UNCHANGED <<plan, graph, stack, todo, ret, loc, assignments, results>>
    /\ called' = NoCall

\* Router.__init__
Router(g, portals_dists, num_agents) ==
    LET ordered_links == OrderedLinks(g)
    IN  [portals_dists |-> portals_dists,
         num_agents |-> num_agents,
         ordered_links |-> ordered_links,
         ordered_origins |-> List([k \in 1..Len(ordered_links) |-> ordered_links[k][1]]),
         ordered_links_depends |-> List([k \in 1..Len(ordered_links) |->
                                            g.edges[ordered_links[k]].depends])]

\* The assignment of an agent who stays for a second link time
Assignment_staying(agent, location, arrive, link) ==
    [agent |-> agent, location |-> location, arrive |-> arrive, link |-> link,
     depart |-> arrive + LINKTIME + LINKTIME]

Assignment(agent, location, arrive, link) ==
    [agent |-> agent, location |-> location, arrive |-> arrive, link |-> link,
     depart |-> arrive + LINKTIME]

\* The arrival times of an agent that takes no time to walk
SingleAgentArrive_no_walk(router, i) == i * LINKTIME

\* router.py:201-218: one agent makes the links in their order
RECURSIVE SingleAgentArrive(_, _)
SingleAgentArrive(router, i) ==
    IF i = 0 THEN 0
    ELSE SingleAgentArrive(router, i-1) + LINKTIME
         + (router.portals_dists[router.ordered_links[i][1]][router.ordered_links[i+1][1]]
            \div WALKSPEED)

SingleAgentAssignments(router) ==
    [k \in 1..Len(router.ordered_links) |->
        Assignment(0, router.ordered_links[k][1], SingleAgentArrive(router, k-1),
                   router.ordered_links[k][2])]

\* router.py:225-227, itertools.groupby over ordered_origins.  starts[n] is
\* the 0-based index of the first link of the n-th run of equal origins;
\* node 0 is the dummy depot and node n >= 1 is the n-th run.
CutOrigins(router) ==
    LET n_links == Len(router.ordered_links)
        starts == SelectSeq([k \in 1..n_links |-> k-1],
                            LAMBDA i : i = 0 \/ router.ordered_origins[i+1]
                                                   # router.ordered_origins[i])
    IN  [starts |-> starts,
         ordered_cut_origins |-> List([n \in 1..Len(starts) |->
                                          router.ordered_origins[starts[n]+1]]),
         count_cut_origins |-> List([n \in 1..Len(starts) |->
             (IF n < Len(starts) THEN starts[n+1] ELSE n_links) - starts[n]])]

\* time_callback: action(A) + travel(A, B)
total_time(router, cut, from_node, to_node) ==
    (IF from_node = 0 THEN 0 ELSE cut.count_cut_origins[from_node] * LINKTIME)
    + (IF from_node = 0 \/ to_node = 0 THEN 0
       ELSE router.portals_dists[cut.ordered_cut_origins[from_node]]
                                [cut.ordered_cut_origins[to_node]] \div WALKSPEED)

\* router.py:298-314: a link of node i+1 depends on a link of node i
Conflict(router, cut, i) ==
    LET this_link == cut.starts[i]
        next_link == cut.starts[i+1]
    IN  \E linki \in this_link..(this_link + cut.count_cut_origins[i] - 1) :
        \E linkj \in next_link..(next_link + cut.count_cut_origins[i+1] - 1) :
            DependsOn(router.ordered_links, router.ordered_links_depends, linkj, linki)

\* The routes a solution can hold: the constraints of lines 317-326 make the
\* time of node i+1 at least that of node i, and an agent's next node is
\* later than its previous one by the action time, so each agent visits its
\* nodes in increasing order and a solution is the agent of every node.
Routes(router) ==
    IF router.num_agents = 1 THEN { <<>> }
    ELSE [1..Len(CutOrigins(router).starts) -> 0..(router.num_agents - 1)]

\* solution.Min(time_dimension.CumulVar(index)) for the nodes 1, 2, ...: the
\* earliest time of each node under the transit times along the routes and
\* the constraints of lines 317-326; cumul holds the times found so far
RECURSIVE CumulMin(_, _, _, _)
CumulMin(router, cut, route, cumul) ==
    IF Len(cumul) = Len(cut.starts) THEN cumul
    ELSE LET n == Len(cumul) + 1
             earlier == { m \in 1..(n-1) : route[m] = route[n] }
             prev == CHOOSE m \in earlier : \A k \in earlier : k <= m
             after_prev == IF earlier = {} THEN 0
                           ELSE cumul[prev] + total_time(router, cut, prev, n)
             after_this == IF n = 1 THEN 0
                           ELSE IF Conflict(router, cut, n-1)
                           THEN cumul[n-1] + cut.count_cut_origins[n-1] * LINKTIME + COMMTIME + 1
                           ELSE cumul[n-1]
         IN  CumulMin(router, cut, route,
                      Append(cumul, IF after_prev > after_this THEN after_prev ELSE after_this))

\* router.py:364-407: the assignments of every agent along its route, then
\* sorted by arrival time (a stable sort)
RoutedAssignments(router, route) ==
    LET n_links == Len(router.ordered_links)
        cut == CutOrigins(router)
        cumul == CumulMin(router, cut, route, <<>>)
        \* for the link at index l-1 of ordered_links: its node, time and agent
        node == List([l \in 1..n_links |->
                    CHOOSE n \in 1..Len(cut.starts) :
                       cut.starts[n] <= l - 1 /\ l - 1 < cut.starts[n] + cut.count_cut_origins[n]])
        arrive == List([l \in 1..n_links |->
                      cumul[node[l]] + (l - 1 - cut.starts[node[l]]) * LINKTIME])
        agent == List([l \in 1..n_links |-> route[node[l]]])
        before(a, b) == \/ arrive[a] < arrive[b]
                        \/ arrive[a] = arrive[b] /\ agent[a] < agent[b]
                        \/ arrive[a] = arrive[b] /\ agent[a] = agent[b] /\ a < b
        at == List([k \in 1..n_links |->
                  CHOOSE l \in 1..n_links :
                     Cardinality({m \in 1..n_links : before(m, l)}) = k - 1])
    IN  List([k \in 1..n_links |->
            Assignment(agent[at[k]], router.ordered_links[at[k]][1], arrive[at[k]],
                       router.ordered_links[at[k]][2])])

\* A route_agents that, for several agents, emits only the first link of
\* every visited node instead of expanding the node into its links
route_agents_first_links(router, route) ==
    IF router.num_agents = 1
    THEN SingleAgentAssignments(router)
    ELSE LET asss == RoutedAssignments(router, route)
         IN  SelectSeq(asss, LAMBDA ass :
                ~\E k \in 1..Len(asss) : /\ asss[k].agent = ass.agent
                                         /\ asss[k].location = ass.location
                                         /\ asss[k].depart = ass.arrive)

\* Router.route_agents
route_agents(router, route) ==
    IF router.num_agents = 1
    THEN SingleAgentAssignments(router)
    ELSE RoutedAssignments(router, route)

\* plan.py:244-245: for i, ass in enumerate(assignments): ...['order'] = i
RECURSIVE Renumber(_, _, _)
Renumber(g, asss, i) ==
    IF i = Len(asss) THEN g
    ELSE Renumber([g EXCEPT !.edges[<<asss[i+1].location, asss[i+1].link>>].order = i],
                  asss, i + 1)

\* Plan.route_agents (plan.py:222-250); self.graph is the graph generate returned
PlanRouteAgents ==
    /\ pc = "optimized"
    /\ LET router == Router(plan.graph, plan.portals_dists, plan.num_agents)
       IN  \E route \in Routes(router) :
              LET asss == route_agents(router, route)
                  result == reset(Renumber(plan.graph, asss, 0))
              IN  /\ assignments' = asss
                  /\ graph' = result.graph
                  /\ plan' = [plan EXCEPT !.graph = result.graph]
                  /\ exc' = result.raised
                  /\ pc' = IF result.raised = "none" THEN "routed" ELSE "raised"
    /\ UNCHANGED <<stack, todo, ret, loc, results>>
    /\ called' = NoCall

----------------------------------------------------------------------------
(* The specification.                                                      *)

\* Generator.generate starts on a deep copy of the plan's seed graph and
\* calls fielder.make_fields(self.plan.perim_portals)
Start(input) ==
    /\ plan = Plan(Layouts[input[1]], input[2])
    /\ graph = plan.graph
    /\ stack = << Frame(plan.perim_portals) >>
    /\ todo = <<>>
    /\ exc = "none"
    /\ ret = "none"
    /\ pc = "make_fields"
    /\ loc = [ordered_links |-> <<>>, i |-> 0, num_tries |-> 0, moved |-> FALSE]
    /\ assignments = <<>>
    /\ called = NoCall
    /\ results = <<>>

Init == \E input \in Inputs : Start(input)

Next ==
    \/ MakeFieldsEnter
    \/ MakeFieldsCandidate
    \/ MakeFieldsNoSolution
    \/ BuildLinks
    \/ BuildFinalLinks
    \/ AddLink
    \/ MakeFieldsDeadend
    \/ MakeFieldsRecurse
    \/ MakeFieldsReturned
    \/ MakeFieldsRaises
    \/ GenerateNoSolution
    \/ GenerateAssignFields
    \/ ReorderLinksOriginEnter
    \/ ReorderLinksOriginTurn
    \/ ReorderLinksOriginExit
    \/ GenerateReset
    \/ GenerateReorderLinksDepends
    \/ GenerateResetAfterMove
    \/ GenerateFinish
    \/ PlanOptimize
    \/ PlanOptimizeRaises
    \/ PlanRouteAgents

Spec == Init /\ [][Next]_vars

\* The make_fields call of generate alone, on the plan of FielderInputs
InitFielder == \E input \in FielderInputs : Start(input)

NextFielder ==
    \/ MakeFieldsEnter
    \/ MakeFieldsCandidate
    \/ MakeFieldsNoSolution
    \/ BuildLinks
    \/ BuildFinalLinks
    \/ AddLink
    \/ MakeFieldsDeadend
    \/ MakeFieldsRecurse
    \/ MakeFieldsReturned
    \/ MakeFieldsRaises

SpecFielder == InitFielder /\ [][NextFielder]_vars

\* The make_fields call of generate alone, on the plan of PrecheckInputs
InitPrecheck == \E input \in PrecheckInputs : Start(input)

\* Every portal of this plan has the higher cap and no add_link call reaches
\* its rule 5, so the only exception in flight is the DeadendError that
\* make_fields catches
NextPrecheck ==
    \/ MakeFieldsEnter
    \/ MakeFieldsCandidate
    \/ MakeFieldsNoSolution
    \/ BuildLinks
    \/ BuildFinalLinks
    \/ AddLink
    \/ MakeFieldsDeadend
    \/ MakeFieldsRecurse
    \/ MakeFieldsReturned

SpecPrecheck == InitPrecheck /\ [][NextPrecheck]_vars

\* generate, optimize and route_agents for several agents on the plans of
\* RouteInputs.  No link is refused on these plans, whose portals all have the
\* higher cap, so make_fields succeeds at its first attempt
InitRoute == \E input \in RouteInputs : Start(input)

NextRoute ==
    \/ MakeFieldsEnter
    \/ MakeFieldsCandidate
    \/ BuildLinks
    \/ BuildFinalLinks
    \/ AddLink
    \/ MakeFieldsRecurse
    \/ MakeFieldsReturned
    \/ GenerateAssignFields
    \/ ReorderLinksOriginEnter
    \/ ReorderLinksOriginTurn
    \/ ReorderLinksOriginExit
    \/ GenerateReset
    \/ GenerateReorderLinksDepends
    \/ GenerateResetAfterMove
    \/ GenerateFinish
    \/ PlanOptimize
    \/ PlanRouteAgents

SpecRoute == InitRoute /\ [][NextRoute]_vars

\* The same on the plan of ThreeAgentInputs
InitThreeAgents == \E input \in ThreeAgentInputs : Start(input)

SpecThreeAgents == InitThreeAgents /\ [][NextRoute]_vars

\* The plan of scenario S2: three hull portals around one portal
ScenarioInputs == { <<7, 1>> }

InitScenario == \E input \in ScenarioInputs : Start(input)

SpecScenario == InitScenario /\ [][NextRoute]_vars

----------------------------------------------------------------------------
(* plan.py: Plan.optimize over the results of several generate calls.      *)

\* The number of generate calls of one optimize (num_field_iterations; the
\* code's default is 100)
MaxResults == 3

\* What Generator.generate returns: the completed graph (generator.py:168),
\* or the tuple (np.inf, np.nan, np.nan, np.inf) (generator.py:114)
GraphResult(g) == [returned |-> "graph", graph |-> g]
NoSolutionResult == [returned |-> "tuple"]

\* plan.py:174-176, the sort key (-result.ap, result.length, result.max_keys)
key(result) == << 0 - result.graph.ap, result.graph.length, result.graph.max_keys >>

\* Python's < on two tuples of three numbers
TupleLess(a, b) ==
    \/ a[1] < b[1]
    \/ a[1] = b[1] /\ a[2] < b[2]
    \/ a[1] = b[1] /\ a[2] = b[2] /\ a[3] < b[3]

\* plan.py:173-177: best = sorted(results, key=...); self.graph = best[0].
\* The key function is called on every result, and a tuple has no attribute
\* ap; the sort is stable, so best[0] is the first result with the least key.
optimize(self_graph, rs) ==
    IF \E k \in 1..Len(rs) : rs[k].returned = "tuple"
    THEN Raises(self_graph, "AttributeError")
    ELSE LET first == CHOOSE k \in 1..Len(rs) :
                         /\ \A j \in 1..Len(rs) : ~TupleLess(key(rs[j]), key(rs[k]))
                         /\ \A j \in 1..(k-1) : TupleLess(key(rs[k]), key(rs[j]))
         IN  Returns(rs[first].graph)

\* The plan optimize is run on, and the results a generate call can give it:
\* no solution, or a graph with the statistics of lines 147-167 (a plan with
\* 5 links and 2 fields or with 4 links and 1 field, two path lengths, two
\* key counts)
OptimizeInputs == { <<2, 1>> }

GenerateResults(seed) ==
    LET stats == { <<5, 2>>, <<4, 1>> }
        n == Cardinality(DOMAIN seed.nodes)
    IN  { NoSolutionResult } \cup
        { GraphResult([seed EXCEPT
              !.num_links = st[1], !.num_fields = st[2],
              !.length = length, !.max_keys = max_keys,
              !.ap_portals = AP_PER_PORTAL * n,
              !.ap_links = AP_PER_LINK * st[1],
              !.ap_fields = AP_PER_FIELD * st[2],
              !.ap = AP_PER_PORTAL * n + AP_PER_LINK * st[1] + AP_PER_FIELD * st[2]]) :
          st \in stats, length \in {20, 21}, max_keys \in {1, 2} }

\* plan.py:142-143, one more generator.generate(i) of the list comprehension
OptimizeGenerate ==
    /\ pc = "optimize" /\ Len(results) < MaxResults
    /\ \E result \in GenerateResults(plan.graph) : results' = Append(results, result)
    /\ UNCHANGED <<plan, graph, stack, todo, exc, ret, pc, loc, assignments, called>>

\* plan.py:173-177 on the results of num_field_iterations = Len(results) calls
OptimizeSelect ==
    /\ pc = "optimize" /\ Len(results) >= 1
    /\ LET result == optimize(plan.graph, results)
       IN  /\ plan' = [plan EXCEPT !.graph = result.graph]
           /\ exc' = result.raised
           /\ pc' = IF result.raised = "none" THEN "optimized" ELSE "raised"
    /\ UNCHANGED <<graph, stack, todo, ret, loc, assignments, called, results>>

StartOptimize(input) ==
    /\ plan = Plan(Layouts[input[1]], input[2])
    /\ graph = plan.graph
    /\ stack = <<>>
    /\ todo = <<>>
    /\ exc = "none"
    /\ ret = "none"
    /\ pc = "optimize"
    /\ loc = [ordered_links |-> <<>>, i |-> 0, num_tries |-> 0, moved |-> FALSE]
    /\ assignments = <<>>
    /\ called = NoCall
    /\ results = <<>>

InitOptimize == \E input \in OptimizeInputs : StartOptimize(input)

NextOptimize ==
    \/ OptimizeGenerate
    \/ OptimizeSelect

SpecOptimize == InitOptimize /\ [][NextOptimize]_vars

----------------------------------------------------------------------------
(* Several Generator.generate calls on one plan (plan.py:142-143).         *)

\* The number of generate calls that are followed
MaxCalls == 3

\* The plan the sequence of generate calls is run on: some of its calls
\* succeed and some find no solution
CallInputs == { <<1, 1>> }

\* generator.py:114 and 168: generate returns the tuple or its graph
GenerateReturn ==
    /\ pc \in {"generated", "no_solution"}
    /\ results' = Append(results, IF pc = "generated" THEN GraphResult(graph)
                                  ELSE NoSolutionResult)
    /\ pc' = "returned"
    /\ UNCHANGED <<plan, graph, stack, todo, exc, ret, loc, assignments>>
    /\ called' = NoCall

\* A next call that keeps working on the graph of the call before
GenerateCall_no_copy ==
    /\ pc = "returned" /\ Len(results) < MaxCalls
    /\ stack' = << Frame(plan.perim_portals) >>
    /\ todo' = <<>>
    /\ exc' = "none"
    /\ ret' = "none"
    /\ pc' = "make_fields"
    /\ loc' = [ordered_links |-> <<>>, i |-> 0, num_tries |-> 0, moved |-> FALSE]
    /\ UNCHANGED <<plan, graph, assignments, results>>
    /\ called' = NoCall

\* generator.py:99-110: the next generate call copies self.plan.graph, makes
\* its own Fielder and calls make_fields(self.plan.perim_portals)
GenerateCall ==
    /\ pc = "returned" /\ Len(results) < MaxCalls
    /\ graph' = plan.graph
    /\ stack' = << Frame(plan.perim_portals) >>
    /\ todo' = <<>>
    /\ exc' = "none"
    /\ ret' = "none"
    /\ pc' = "make_fields"
    /\ loc' = [ordered_links |-> <<>>, i |-> 0, num_tries |-> 0, moved |-> FALSE]
    /\ UNCHANGED <<plan, assignments, results>>
    /\ called' = NoCall

InitCalls == \E input \in CallInputs : Start(input)

\* add_link raises nothing but DeadendError on this plan, so MakeFieldsRaises
\* has no step
NextCalls ==
    \/ MakeFieldsEnter
    \/ MakeFieldsCandidate
    \/ MakeFieldsNoSolution
    \/ BuildLinks
    \/ BuildFinalLinks
    \/ AddLink
    \/ MakeFieldsDeadend
    \/ MakeFieldsRecurse
    \/ MakeFieldsReturned
    \/ GenerateNoSolution
    \/ GenerateAssignFields
    \/ ReorderLinksOriginEnter
    \/ ReorderLinksOriginTurn
    \/ ReorderLinksOriginExit
    \/ GenerateReset
    \/ GenerateReorderLinksDepends
    \/ GenerateResetAfterMove
    \/ GenerateFinish
    \/ GenerateReturn
    \/ GenerateCall

SpecCalls == InitCalls /\ [][NextCalls]_vars

----------------------------------------------------------------------------
(* maxfield.py: read_portal_file.                                          *)

\* The parts a portal line is made of after the portal's name, the number of
\* parts of a line and the number of lines of a file
PortalParts ==
    { "", "undefined", "pll=1,2", "pll=3,4", "pll", "0", "2", "sbul", "SBUL",
      "inbound", "portal" }

MaxParts == 3

MaxLines == 2

PortalLines == UNION { [1..n -> PortalParts] : n \in 0..MaxParts }

\* 'pll' in part
contains_pll(part) == part \in { "pll=1,2", "pll=3,4", "pll" }

\* part.split('pll=')
split_pll(part) ==
    IF part = "pll=1,2" THEN << "", "1,2" >>
    ELSE IF part = "pll=3,4" THEN << "", "3,4" >>
    ELSE << part >>

\* lat, lon = coord_parts[1].split(','); float(lat); float(lon)
split_coords(text) ==
    IF text = "1,2" THEN [lat |-> 1, lon |-> 2] ELSE [lat |-> 3, lon |-> 4]

\* int(part) raises ValueError unless the part is a number
is_int(part) == part \in { "0", "2" }

int(part) == IF part = "0" THEN 0 ELSE 2

\* part.lower()
lower(part) == IF part = "SBUL" THEN "sbul" ELSE part

\* Lines 78-83, the properties of a line before its parts are read
NewLine(has_inbound_portal) ==
    [lon |-> None, lat |-> None, keys |-> 0, sbul |-> FALSE, inbound |-> FALSE,
     has_inbound_portal |-> has_inbound_portal, raised |-> "none"]

\* Lines 84-157, the loop body on one part.  The ValueError of a second key
\* entry is raised inside the try block whose except clause takes a part
\* for "not keys", so the part goes on to the tests that follow
ReadPart(st, part) ==
    IF part = "" \/ part = "undefined" THEN st
    ELSE IF contains_pll(part)
    THEN IF st.lon # None
         THEN [st EXCEPT !.raised = "has multiple Intel URLs"]
         ELSE IF Len(split_pll(part)) # 2
         THEN [st EXCEPT !.raised = "incorrect Intel URL"]
         ELSE [st EXCEPT !.lat = split_coords(split_pll(part)[2]).lat,
                         !.lon = split_coords(split_pll(part)[2]).lon]
    ELSE IF is_int(part) /\ ~(st.keys > 0)
    THEN [st EXCEPT !.keys = int(part)]
    ELSE IF lower(part) = "sbul"
    THEN IF st.sbul
         THEN [st EXCEPT !.raised = "has multiple SBUL entries"]
         ELSE [st EXCEPT !.sbul = TRUE]
    ELSE IF lower(part) = "inbound"
    THEN IF st.inbound
         THEN [st EXCEPT !.raised = "has multiple inbound entries"]
         ELSE IF st.sbul
         THEN [st EXCEPT !.raised = "has both SBUL and inbound flags"]
         ELSE IF st.has_inbound_portal
         THEN [st EXCEPT !.raised = "more than one inbound portal"]
         ELSE [st EXCEPT !.inbound = TRUE, !.has_inbound_portal = TRUE]
    ELSE [st EXCEPT !.raised = "is improperly formatted"]

\* for part in parts[1:], until a part raises
RECURSIVE ReadParts(_, _, _)
ReadParts(st, parts, k) ==
    IF st.raised # "none" \/ k > Len(parts) THEN st
    ELSE ReadParts(ReadPart(st, parts[k]), parts, k + 1)

\* Lines 161-163, the check after the parts
ReadLine(has_inbound_portal, parts) ==
    LET st == ReadParts(NewLine(has_inbound_portal), parts, 1)
    IN  IF st.raised = "none" /\ (st.lon = None \/ st.lat = None)
        THEN [st EXCEPT !.raised = "is missing Intel URL"]
        ELSE st

\* Lines 60-181, one more line of the file: its parts are read, a line with
\* the coordinates of an earlier portal is skipped, the portal is appended
ReadPortalLine ==
    /\ pc = "read_portal_file" /\ loc.num_lines < MaxLines
    /\ \E parts \in PortalLines :
          LET st == ReadLine(loc.has_inbound_portal, parts)
              skip_line == \E k \in 1..Len(results) :
                              st.lon = results[k].lon /\ st.lat = results[k].lat
          IN  /\ exc' = st.raised
              /\ pc' = IF st.raised = "none" THEN "read_portal_file" ELSE "raised"
              /\ results' = IF st.raised = "none" /\ ~skip_line
                            THEN Append(results, [lon |-> st.lon, lat |-> st.lat,
                                                  keys |-> st.keys, sbul |-> st.sbul,
                                                  inbound |-> st.inbound])
                            ELSE results
              /\ loc' = [has_inbound_portal |-> st.has_inbound_portal,
                         num_lines |-> loc.num_lines + 1]
              /\ called' = [op |-> "read_portal_line", parts |-> parts]
    /\ UNCHANGED <<plan, graph, stack, todo, ret, assignments>>

\* Line 182, return portals at the end of the file
ReadPortalFileReturn ==
    /\ pc = "read_portal_file"
    /\ pc' = "portals_read"
    /\ UNCHANGED <<plan, graph, stack, todo, exc, ret, loc, assignments, results>>
    /\ called' = NoCall

\* read_portal_file opens the file; no plan exists yet
InitPortalFile ==
    /\ plan = None
    /\ graph = None
    /\ stack = <<>>
    /\ todo = <<>>
    /\ exc = "none"
    /\ ret = "none"
    /\ pc = "read_portal_file"
    /\ loc = [has_inbound_portal |-> FALSE, num_lines |-> 0]
    /\ assignments = <<>>
    /\ called = NoCall
    /\ results = <<>>

NextPortalFile ==
    \/ ReadPortalLine
    \/ ReadPortalFileReturn

SpecPortalFile == InitPortalFile /\ [][NextPortalFile]_vars

----------------------------------------------------------------------------
(* Vocabulary of the properties.                                           *)

\* The outgoing-link cap of a portal, and its out-degree counted on the edges
Cap(g, portal) == IF g.nodes[portal].sbul THEN OUTGOING_LIMIT_SBUL ELSE OUTGOING_LIMIT

OutEdges(g, portal) == { e \in DOMAIN g.edges : e[1] = portal }

BelowCap(g, portal) == Cardinality(OutEdges(g, portal)) < Cap(g, portal)

Adjacent(g, p, q) == <<p, q>> \in DOMAIN g.edges \/ <<q, p>> \in DOMAIN g.edges

\* The successors r of portal, in the order the graph lists them, whose link
\* portal->r is marked reversible and that are below their cap
Flippable(g, portal) ==
    SelectSeq(g.adj[portal],
              LAMBDA r : g.edges[<<portal, r>>].reversible /\ BelowCap(g, r))

\* after is before with exactly the new link u->v added as its last link
Added(before, after, u, v, reversible) ==
    /\ DOMAIN after.edges = DOMAIN before.edges \cup {<<u, v>>}
    /\ \A e \in DOMAIN before.edges : after.edges[e] = before.edges[e]
    /\ after.edges[<<u, v>>].order = Len(before.link_order)
    /\ after.edges[<<u, v>>].reversible = reversible
    /\ after.link_order = Append(before.link_order, <<u, v>>)

\* before with its link u->r turned into r->u: the link keeps its attributes
\* and its index of link_order, and nothing else changes
FlipOf(before, u, r) ==
    [before EXCEPT
        !.edges = [e \in (DOMAIN @ \ {<<u, r>>}) \cup {<<r, u>>} |->
                      IF e = <<r, u>> THEN @[<<u, r>>] ELSE @[e]],
        !.link_order = [k \in 1..Len(@) |-> IF @[k] = <<u, r>> THEN <<r, u>> ELSE @[k]]]

\* Two graphs hold the same links with the same attributes, the same
\* link_order and the same first generation fields
SameState(g, h) ==
    /\ DOMAIN g.edges = DOMAIN h.edges
    /\ \A e \in DOMAIN g.edges : g.edges[e] = h.edges[e]
    /\ g.link_order = h.link_order
    /\ g.firstgen_fields = h.firstgen_fields

\* The order attributes of the M links are 0..M-1, each used once
OrdersArePermutation(g) ==
    /\ { g.edges[e].order : e \in DOMAIN g.edges } = 0..(Cardinality(DOMAIN g.edges) - 1)
    /\ \A e1, e2 \in DOMAIN g.edges : g.edges[e1].order = g.edges[e2].order => e1 = e2

\* link_order[k] is a link of the graph whose order is k, and every link is
\* in link_order once
LinkOrderMatches(g) ==
    /\ \A k \in 1..Len(g.link_order) :
          /\ g.link_order[k] \in DOMAIN g.edges
          /\ g.edges[g.link_order[k]].order = k - 1
    /\ \A e \in DOMAIN g.edges :
          Cardinality({ k \in 1..Len(g.link_order) : g.link_order[k] = e }) = 1

\* The fields of the tree under fld, and of the trees under firstgen_fields
RECURSIVE FieldsUnder(_)
FieldsUnder(fld) ==
    {fld} \cup UNION { FieldsUnder(fld.children[k]) : k \in 1..Len(fld.children) }

AllFields(g) == UNION { FieldsUnder(g.firstgen_fields[k]) : k \in 1..Len(g.firstgen_fields) }

\* The links of the graph between two vertices of a field
EdgesOf(g, fld) ==
    { e \in DOMAIN g.edges : In(e[1], fld.vertices) /\ In(e[2], fld.vertices) }

\* How many times the links of the set list the field
Listings(g, links, fld) ==
    LET count(e) == Cardinality({ k \in 1..Len(g.edges[e].fields) :
                                     g.edges[e].fields[k] = fld.vertices })
        RECURSIVE total(_)
        total(S) == IF S = {} THEN 0
                    ELSE LET e == CHOOSE x \in S : TRUE IN count(e) + total(S \ {e})
    IN  total(links)

LastEdgeOf(g, fld) ==
    CHOOSE e \in EdgesOf(g, fld) :
        \A f \in EdgesOf(g, fld) : g.edges[f].order <= g.edges[e].order

\* A reversal made by reorder_links_origin: link_order still names the old direction
OriginReversal(g) == \E k \in 1..Len(g.link_order) : g.link_order[k] \notin DOMAIN g.edges

AtCap(g, portal) == Cardinality(OutEdges(g, portal)) = Cap(g, portal)

LastLink(g) == g.link_order[Len(g.link_order)]

\* The add_link call that has just returned or raised
JustCalled == called.op = "add_link"

\* Fielder.reset has just run in the make_fields call on top of the stack
AfterReset ==
    /\ Fielding
    /\ \/ Top.at = "loop" /\ Top.remaining # 1..Len(Top.perim_portals)
       \/ Top.at = "try" /\ Top.attempt > 0 /\ todo = BuildCalls

----------------------------------------------------------------------------
(* The properties.                                                         *)

\* C1: in every state reached while a plan is built and reordered, the
\* out-degree of each portal is at most the outgoing cap of the portal
\* (OUTGOING_LIMIT, or OUTGOING_LIMIT_SBUL when its sbul flag is set).
C1_OutDegreeWithinCap ==
    \A portal \in DOMAIN graph.nodes :
        Cardinality(OutEdges(graph, portal)) <= Cap(graph, portal)

\* A reversal made by reorder_links_origin has put a portal at its cap
C1_Witness ==
    /\ pc = "reorder_links_origin_loop"
    /\ \E k \in 1..Len(graph.link_order) :
          LET link == graph.link_order[k]
          IN  /\ link \notin DOMAIN graph.edges
              /\ <<link[2], link[1]>> \in DOMAIN graph.edges
              /\ AtCap(graph, link[2])

\* C2: the order attributes of the M links are exactly 0..M-1, each used
\* once, after reorder_links_origin, after every move committed by
\* reorder_links_depends, at the return of a successful generate and after
\* Plan.route_agents has renumbered the links.
C2_OrdersArePermutation ==
    pc \in {"reset", "reorder_links_depends", "reset_after_move", "finish",
            "generated", "optimized", "routed"}
        => OrdersArePermutation(graph)

\* Two agents were routed and the renumbering changed the order generate returned
C2_Witness ==
    /\ pc = "routed"
    /\ plan.num_agents = 2
    /\ loc.num_tries > 0
    /\ get_path_length(graph, plan.portals_dists) # graph.length

\* C3: at the return of a successful generate, every field of the trees
\* under firstgen_fields is listed in the fields of exactly one link, the
\* one with the greatest order among the three links of the field.
C3_FieldOnLastLink ==
    pc = "generated" =>
        \A fld \in AllFields(graph) :
            /\ Listings(graph, DOMAIN graph.edges, fld) = 1
            /\ Listings(graph, {LastEdgeOf(graph, fld)}, fld) = 1

\* C4: at the return of a successful generate, every link named in
\* depends[e] is a link of the graph with a smaller order than e, and every
\* link that starts at a portal named in depends[e] has a smaller order
\* than e.
C4_DependsPrecede ==
    pc = "generated" =>
        \A e \in DOMAIN graph.edges : \A k \in 1..Len(graph.edges[e].depends) :
            LET d == graph.edges[e].depends[k]
            IN  IF Len(d) = 2
                THEN d \in DOMAIN graph.edges /\ graph.edges[d].order < graph.edges[e].order
                ELSE \A f \in OutEdges(graph, d[1]) :
                        graph.edges[f].order < graph.edges[e].order

\* A link depends on a link and on an interior portal that originates links,
\* in a plan whose links were moved by reorder_links_depends
C4_Witness ==
    /\ pc = "generated"
    /\ loc.num_tries > 0
    /\ \E e \in DOMAIN graph.edges :
          /\ \E k \in 1..Len(graph.edges[e].depends) : Len(graph.edges[e].depends[k]) = 2
          /\ \E k \in 1..Len(graph.edges[e].depends) :
                /\ Len(graph.edges[e].depends[k]) = 1
                /\ OutEdges(graph, graph.edges[e].depends[k][1]) # {}

\* C5: add_link(p, q, reversible) returns with the graph unchanged when p
\* and q are adjacent; otherwise, when p is below its cap, it adds exactly
\* p->q; otherwise, when reversible and q is below its cap, it adds exactly
\* q->p.  The new link gets the previous length of link_order as its order
\* and is appended to link_order.
C5_AddLinkFirstRules ==
    JustCalled =>
        LET before == called.graph
            p == called.p
            q == called.q
        IN  /\ Adjacent(before, p, q) => exc = "none" /\ graph = before
            /\ ~Adjacent(before, p, q) /\ BelowCap(before, p)
                  => exc = "none" /\ Added(before, graph, p, q, called.reversible)
            /\ ~Adjacent(before, p, q) /\ ~BelowCap(before, p)
               /\ called.reversible /\ BelowCap(before, q)
                  => exc = "none" /\ Added(before, graph, q, p, called.reversible)

\* add_link has just added q->p because p was at its cap
C5_Witness ==
    /\ JustCalled
    /\ ~Adjacent(called.graph, called.p, called.q)
    /\ ~BelowCap(called.graph, called.p)
    /\ called.reversible /\ BelowCap(called.graph, called.q)
    /\ LastLink(graph) = <<called.q, called.p>>

\* C6: when p is at its cap and q->p cannot be added directly, add_link
\* flips the first link p->r of p that is reversible with r below its cap,
\* then adds p->q: r->p keeps the attributes of p->r and its index of
\* link_order, and no other link or link_order entry changes.
C6_FlipAtOrigin ==
    JustCalled =>
        LET before == called.graph
            p == called.p
            q == called.q
        IN  /\ ~Adjacent(before, p, q) /\ ~BelowCap(before, p)
            /\ ~(called.reversible /\ BelowCap(before, q))
            /\ Flippable(before, p) # <<>>
            => /\ exc = "none"
               /\ Added(FlipOf(before, p, Flippable(before, p)[1]), graph,
                        p, q, called.reversible)

\* add_link has just flipped a link of p that was not the last link made
C6_Witness ==
    /\ JustCalled
    /\ ~Adjacent(called.graph, called.p, called.q)
    /\ ~BelowCap(called.graph, called.p)
    /\ ~(called.reversible /\ BelowCap(called.graph, called.q))
    /\ Flippable(called.graph, called.p) # <<>>
    /\ <<Flippable(called.graph, called.p)[1], called.p>> \in DOMAIN graph.edges
    /\ LastLink(called.graph) # <<called.p, Flippable(called.graph, called.p)[1]>>
    /\ LastLink(graph) = <<called.p, called.q>>

\* C7: when p and q are not adjacent and both at their cap, p has no
\* flippable link and q has a reversible link q->r with r below its cap,
\* add_link(p, q, True) flips the first such link to r->q, keeping its
\* attributes and index of link_order, and adds q->p as the new last link.
C7_FlipAtDestination ==
    JustCalled =>
        LET before == called.graph
            p == called.p
            q == called.q
        IN  /\ called.reversible
            /\ ~Adjacent(before, p, q) /\ ~BelowCap(before, p) /\ ~BelowCap(before, q)
            /\ Flippable(before, p) = <<>>
            /\ Flippable(before, q) # <<>>
            => /\ exc = "none"
               /\ Added(FlipOf(before, q, Flippable(before, q)[1]), graph, q, p, TRUE)

\* C8: add_link raises DeadendError only when p and q are not adjacent and
\* no rule applies, and then the links, their attributes and link_order are
\* as before the call.
C8_DeadendOnlyWhenStuck ==
    JustCalled /\ exc = "DeadendError" =>
        LET before == called.graph
            p == called.p
            q == called.q
        IN  /\ ~Adjacent(before, p, q)
            /\ ~BelowCap(before, p)
            /\ ~BelowCap(before, q) \/ ~called.reversible
            /\ Flippable(before, p) = <<>>
            /\ called.reversible => Flippable(before, q) = <<>>
            /\ graph = before

\* add_link has just raised DeadendError on a reversible link between two
\* portals at their cap that have links out, none of them flippable
C8_Witness ==
    /\ JustCalled /\ exc = "DeadendError"
    /\ called.reversible
    /\ OutEdges(graph, called.p) # {} /\ OutEdges(graph, called.q) # {}
    /\ \E r \in DOMAIN graph.nodes :
          <<called.q, r>> \in DOMAIN graph.edges /\ graph.edges[<<called.q, r>>].reversible

\* C9: Fielder.reset returns the graph to the state it had when the
\* snapshot (num_links, num_firstgen) was taken: the same links with the
\* same attributes, the same link_order and the same firstgen_fields.
C9_ResetRestoresSnapshot ==
    AfterReset => SameState(graph, Top.snapshot)

\* C10: throughout fielding, link_order[k] is a link of the graph whose
\* order is k and every link is in link_order once; the same holds at the
\* return of a successful generate.
C10_LinkOrderMatchesOrders ==
    pc \in {"make_fields", "generated"} => LinkOrderMatches(graph)

\* One step of the program from a state with a DeadendError in flight: the
\* make_fields call on top of the stack catches it, resets the graph to its
\* snapshot sizes and goes on with the next attempt or the next candidate
DeadendCaught ==
    exc = "DeadendError" =>
        /\ pc' = "make_fields"
        /\ exc' = "none"
        /\ Len(stack') = Len(stack)
        /\ stack'[Len(stack')].attempt = Top.attempt + 1
        /\ stack'[Len(stack')].at \in {"try", "loop"}
        /\ graph'.link_order = Take(graph.link_order, Top.num_links)
        /\ graph'.firstgen_fields = Take(graph.firstgen_fields, Top.num_firstgen)

\* C11: a DeadendError in flight is always inside a running make_fields call
\* at a build attempt, the next step catches it there and backtracks (reset,
\* then the next attempt or candidate), and no state outside make_fields
\* holds a DeadendError: none propagates out of make_fields or generate.
C11_DeadendErrorIsCaught ==
    /\ [](exc = "DeadendError" => pc = "make_fields" /\ stack # <<>> /\ Top.at = "try")
    /\ [][DeadendCaught]_vars

\* A DeadendError raised in a recursive make_fields call has been caught
\* there after links were added, and the attempts of the candidate are used up
C11_Witness ==
    /\ Fielding /\ Len(stack) >= 2
    /\ Top.at = "loop" /\ Top.attempt = N_FIELD_ATTEMPTS
    /\ stack[1].at = "recursion"
    /\ Len(graph.link_order) = Top.num_links /\ Top.num_links > 0

\* The results of the generators that succeeded
Successes == SelectSeq(results, LAMBDA r : r.returned = "graph")

\* g is one of the successful results, and none of them has a smaller key
\* (-ap, length, max_keys)
BestOfSuccesses(g) ==
    /\ \E k \in 1..Len(Successes) : Successes[k].graph = g
    /\ \A k \in 1..Len(Successes) : ~TupleLess(key(Successes[k]), key(GraphResult(g)))

\* Plan.optimize has run on the results
OptimizeDone == results # <<>> /\ pc \in {"optimized", "raised"}

\* C12: when a generator returned the no-solution sentinel and another one
\* succeeded, Plan.optimize does not abort and the graph it selects is the
\* best of the results of the generators that succeeded.
C12_FailedGeneratorsDiscarded ==
    OptimizeDone /\ Len(Successes) >= 1 /\ Len(Successes) < Len(results)
        => exc = "none" /\ pc = "optimized" /\ BestOfSuccesses(plan.graph)

\* C13: after Plan.optimize, the selected graph is one of the results of the
\* generators that succeeded and is minimal among them for the key
\* (-ap, length, max_keys).
C13_SelectsLexicographicBest ==
    OptimizeDone /\ Len(Successes) >= 1
        => pc = "optimized" /\ BestOfSuccesses(plan.graph)

\* The field the build_links call at the head of the pending calls is for
PendingField == FieldAt(Top.fld, Head(todo).path)

BuildLinksPending ==
    pc = "make_fields" /\ stack # <<>> /\ Top.at = "try"
    /\ todo # <<>> /\ Head(todo).op = "build_links"

\* The two links at the anchor of the field exist, and its third link exists
AnchorLinksExist(fld) ==
    /\ Adjacent(graph, fld.vertices[1], fld.vertices[2])
    /\ Adjacent(graph, fld.vertices[1], fld.vertices[3])

ThirdLinkExists(fld) == Adjacent(graph, fld.vertices[2], fld.vertices[3])

\* C14: build_links raises DeadendError at its pre-build check only when the
\* two links at the anchor and the third link of the field all exist, and a
\* build_links call on such a field does raise it; on a field whose third
\* link does not exist the check passes.
C14_PrecheckWhenCompleted ==
    /\ [](BuildLinksPending /\ exc = "DeadendError"
             => AnchorLinksExist(PendingField) /\ ThirdLinkExists(PendingField))
    /\ [][BuildLinksPending /\ exc = "none"
             /\ AnchorLinksExist(PendingField) /\ ThirdLinkExists(PendingField)
             => exc' = "DeadendError"]_vars

\* The call of reorder_links_depends in the condition of generate's loop has
\* committed a move in this step
MoveCommitted == pc = "reorder_links_depends" /\ loc'.moved /\ graph' # graph

\* C15: every call of reorder_links_depends in generate that commits a move
\* is followed by generator.reset(graph) before generate reads the fields or
\* returns, also when the loop stops because N_REORDER_ATTEMPTS is reached.
C15_MoveFollowedByReset ==
    [][MoveCommitted => pc' = "reset_after_move"]_vars

\* [graph.edges[link]['depends'] for link in ordered_links]
OrderedDepends(g) ==
    List([k \in 1..Len(OrderedLinks(g)) |-> g.edges[OrderedLinks(g)[k]].depends])

\* An entry of a depends list names a link: as the link itself (edge style)
\* or as the portal the link starts at (node style)
Names(entry, link) == entry = link \/ entry = <<link[1]>>

\* The targets a block move may legally take: to the left of the block, j
\* such that no link of the block depends on a link at j..i-1; to the
\* right, j such that no link at i+size..j depends on a link of the block
LegalTargets(ordered_links, ordered_links_depends, i, size) ==
    LET n == Len(ordered_links)
        block == i..(i+size-1)
        depends_on(a, b) ==
            \E e \in 1..Len(ordered_links_depends[a+1]) :
                Names(ordered_links_depends[a+1][e], ordered_links[b+1])
    IN  { j \in 0..(i-1) : \A k \in block : \A m \in j..(i-1) : ~depends_on(k, m) }
        \cup
        { j \in (i+size)..(n-1) : \A m \in (i+size)..j : \A k \in block : ~depends_on(m, k) }

\* The blocks of the current order: <<start, size>>
Blocks(g) ==
    LET n == Len(OrderedLinks(g))
    IN  { b \in (0..(n-1)) \X (1..n) : b[1] + b[2] <= n }

\* Every link comes after the links its depends (as annotated in g) name, in
\* the orders of h
RespectsDepends(g, h) ==
    \A e \in DOMAIN g.edges : \A k \in 1..Len(g.edges[e].depends) :
        LET d == g.edges[e].depends[k]
        IN  IF Len(d) = 2
            THEN d \in DOMAIN h.edges /\ h.edges[d].order < h.edges[e].order
            ELSE \A f \in OutEdges(h, d[1]) : h.edges[f].order < h.edges[e].order

\* C16: for the ordered link list of every call of reorder_links_depends and
\* every block of it, find_good_depends returns exactly the legal targets
\* (j < i iff no link of the block depends, edge style or node style, on a
\* link at j..i-1; j >= i+size iff no link at i+size..j depends on a link of
\* the block), and a move committed by reorder_links_depends leaves every
\* link after everything its depends list names.
C16_FindGoodDependsExact ==
    /\ [](pc = "reorder_links_depends" =>
            \A b \in Blocks(graph) :
                find_good_depends(OrderedLinks(graph), OrderedDepends(graph), b[1], b[2])
                = LegalTargets(OrderedLinks(graph), OrderedDepends(graph), b[1], b[2]))
    /\ [][MoveCommitted => RespectsDepends(graph, graph')]_vars

\* A move was committed, and in the order it left links depend on an
\* interior portal that starts links and dependencies cut off targets on the
\* left of some block and on the right of some block
C16_Witness ==
    /\ pc = "reorder_links_depends"
    /\ loc.num_tries > 0
    /\ \E e \in DOMAIN graph.edges : \E k \in 1..Len(graph.edges[e].depends) :
          Len(graph.edges[e].depends[k]) = 1 /\ OutEdges(graph, graph.edges[e].depends[k][1]) # {}
    /\ LET ordered_links == OrderedLinks(graph)
           good_j(b) == find_good_depends(ordered_links, OrderedDepends(graph), b[1], b[2])
       IN  /\ \E b \in Blocks(graph) :
                 LET left == 0..(b[1]-1)
                 IN  good_j(b) \cap left # {} /\ ~(left \subseteq good_j(b))
           /\ \E b \in Blocks(graph) :
                 LET right == (b[1]+b[2])..(Len(ordered_links)-1)
                 IN  good_j(b) \cap right # {} /\ ~(right \subseteq good_j(b))

\* The moves <<size, i, j>> of the current order that reorder_links_depends
\* evaluates: a block of the loops of lines 307-308 that line 324 does not
\* skip and a target find_good_depends gives for it
EvaluatedMoves(g) ==
    LET ordered_links == OrderedLinks(g)
        n == Len(ordered_links)
        origin(k) == ordered_links[k+1][1]
        skipped(size, i) ==
            /\ origin(i) = origin(i+size-1)
            /\ \/ i > 0 /\ origin(i-1) = origin(i)
               \/ i + size + 1 < n /\ origin(i+size+1) = origin(i)
    IN  { m \in (1..(n \div 4)) \X (0..(n-1)) \X (0..(n-1)) :
            /\ m[2] <= n - m[1]
            /\ ~skipped(m[1], m[2])
            /\ m[3] \in find_good_depends(ordered_links, OrderedDepends(g), m[2], m[1]) }

\* C17: for every block and target that reorder_links_depends evaluates,
\* blocks and targets at the first and the last position included, the
\* length calc_new_length returns equals get_path_length computed in full on
\* the order with the block moved.
C17_NewLengthIsPathLength ==
    pc = "reorder_links_depends" =>
        \A m \in EvaluatedMoves(graph) :
            LET ordered_links == OrderedLinks(graph)
                moved == MoveBlock(ordered_links, m[2], m[1], m[3])
            IN  calc_new_length(ordered_links, plan.portals_dists,
                                get_path_length(graph, plan.portals_dists),
                                m[2], m[1], m[3])
                = get_path_length(SetOrders(graph, moved), plan.portals_dists)

\* The evaluated moves take a first block to the last position, a last block
\* to the first position and an inner block between inner links, and change
\* the length
C17_Witness ==
    /\ pc = "reorder_links_depends"
    /\ LET n == Len(OrderedLinks(graph))
           changes(m) == PathLength(MoveBlock(OrderedLinks(graph), m[2], m[1], m[3]),
                                    plan.portals_dists)
                         # get_path_length(graph, plan.portals_dists)
       IN  /\ \E m \in EvaluatedMoves(graph) : m[2] = 0 /\ m[3] = n - 1 /\ changes(m)
           /\ \E m \in EvaluatedMoves(graph) : m[2] + m[1] = n /\ m[3] = 0 /\ changes(m)
           /\ \E m \in EvaluatedMoves(graph) :
                 /\ 0 < m[2] /\ m[2] + m[1] < n /\ 0 < m[3] /\ m[3] < n - 1
                 /\ changes(m)

\* The links from position q to position p of the list all start at the
\* portal the link at p starts at: the two ends sit in one group
SameGroup(ordered_links, q, p) ==
    \A k \in q..p : ordered_links[k][1] = ordered_links[p][1]

\* reorder_links_origin has just returned (generator.py:124)
AfterReorderLinksOrigin == pc = "reset"

\* C18: after reorder_links_origin, every link that completes no field sits
\* in one group with each earlier link of the same origin.  The pass moves
\* such a link whatever the caps are, so the property holds without the
\* exception for a reversal that would exceed the outgoing cap.
C18_NoFieldLinksGrouped ==
    AfterReorderLinksOrigin =>
        LET ordered_links == OrderedLinks(graph)
        IN  \A p \in 1..Len(ordered_links) :
                graph.edges[ordered_links[p]].fields = <<>> =>
                    \A q \in 1..(p-1) :
                        ordered_links[q][1] = ordered_links[p][1]
                            => SameGroup(ordered_links, q, p)

\* The pass has moved a link in front of a link of the same origin that was
\* built before it and completes no field
C18_Witness ==
    /\ AfterReorderLinksOrigin
    /\ LET ordered_links == OrderedLinks(graph)
       IN  \E p \in 2..Len(ordered_links) :
              /\ graph.edges[ordered_links[p]].fields = <<>>
              /\ ordered_links[p-1][1] = ordered_links[p][1]
              /\ In(ordered_links[p], graph.link_order)
              /\ In(ordered_links[p-1], graph.link_order)
              /\ IndexOf(graph.link_order, ordered_links[p-1])
                     > IndexOf(graph.link_order, ordered_links[p])

\* The assignments asss make the links of g one after the other in the
\* order of their order attributes, all by agent 0, from time 0, each link
\* taking LINKTIME and each walk the distance between the two origins
\* divided by WALKSPEED
SingleAgentSchedule(g, portals_dists, asss) ==
    /\ Len(asss) = Cardinality(DOMAIN g.edges)
    /\ \A k \in 1..Len(asss) :
          /\ asss[k].agent = 0
          /\ <<asss[k].location, asss[k].link>> \in DOMAIN g.edges
          /\ g.edges[<<asss[k].location, asss[k].link>>].order = k - 1
          /\ asss[k].depart = asss[k].arrive + LINKTIME
          /\ k = 1 => asss[k].arrive = 0
          /\ k > 1 => (asss[k].arrive - asss[k-1].depart) * WALKSPEED
                          = portals_dists[asss[k-1].location][asss[k].location]

\* Plan.route_agents is called for one agent
RoutingOneAgent == pc = "optimized" /\ plan.num_agents = 1

\* C19: with num_agents = 1, route_agents emits one assignment per link in
\* ascending order of the order attribute, all for agent 0, with arrive = 0
\* for the first link, depart = arrive + LINKTIME for every link, and the
\* arrive of each later link equal to the previous depart plus the distance
\* between the two origins divided by WALKSPEED.
C19_SingleAgentSchedule ==
    [][RoutingOneAgent => SingleAgentSchedule(plan.graph, plan.portals_dists, assignments')]_vars

\* One agent was routed over a plan of at least five links, staying at a
\* portal for two links in a row and walking between others
C19_Witness ==
    /\ pc = "routed"
    /\ plan.num_agents = 1
    /\ Len(assignments) >= 5
    /\ \E k \in 2..Len(assignments) :
          /\ assignments[k].location = assignments[k-1].location
          /\ assignments[k].arrive = assignments[k-1].depart
    /\ \E k \in 2..Len(assignments) :
          /\ assignments[k].location # assignments[k-1].location
          /\ assignments[k].arrive > assignments[k-1].depart

\* The link an assignment makes
LinkOf(ass) == <<ass.location, ass.link>>

\* Link b depends on link a in the annotation of g: a is an edge-style entry
\* of depends[b], or the origin of a is a node-style entry
Depends(g, b, a) == In(a, g.edges[b].depends) \/ In(<<a[1]>>, g.edges[b].depends)

\* Every link is started later than COMMTIME after each link it depends on
\* is finished
DependentsWait(g, asss) ==
    \A a \in 1..Len(asss) : \A b \in 1..Len(asss) :
        Depends(g, LinkOf(asss[b]), LinkOf(asss[a]))
            => asss[b].arrive > asss[a].depart + COMMTIME

\* Plan.route_agents is called for several agents
RoutingAgents == pc = "optimized" /\ plan.num_agents > 1

\* C20: in every multi-agent assignment route_agents can return, a link B
\* that depends on a link A (A an edge-style entry of B's depends, or A's
\* origin a node-style entry) has arrive(B) > depart(A) + COMMTIME, for
\* every such pair and not only for links of consecutive origin groups.
C20_DependentsWait ==
    [][RoutingAgents => DependentsWait(plan.graph, assignments')]_vars

\* Two assignments of asss with the same arrive and different agents make
\* links of which neither depends on the other in the annotation of g
SimultaneousIndependent(g, asss) ==
    \A a \in 1..Len(asss) : \A b \in 1..Len(asss) :
        asss[a].arrive = asss[b].arrive /\ asss[a].agent # asss[b].agent
            => /\ ~Depends(g, LinkOf(asss[b]), LinkOf(asss[a]))
               /\ ~Depends(g, LinkOf(asss[a]), LinkOf(asss[b]))

\* C21: in every assignment list route_agents can return for more than one
\* agent, two links with the same arrive time that are assigned to different
\* agents are independent: the depends of neither holds the other link or
\* the origin portal of the other link.
C21_SimultaneousIndependent ==
    [][RoutingAgents => SimultaneousIndependent(plan.graph, assignments')]_vars

\* The list is sorted by arrive, assignments of equal arrive by agent, and
\* every agent arrives at each of its assignments no earlier than it departs
\* from its previous one
ScheduleOrdered(asss) ==
    /\ \A k \in 1..(Len(asss) - 1) :
          \/ asss[k].arrive < asss[k+1].arrive
          \/ asss[k].arrive = asss[k+1].arrive /\ asss[k].agent <= asss[k+1].agent
    /\ \A a \in 1..Len(asss) : \A b \in (a+1)..Len(asss) :
          asss[a].agent = asss[b].agent => asss[b].arrive >= asss[a].depart

\* C22: the assignment list route_agents returns is sorted by non-decreasing
\* arrive, assignments of equal arrive by ascending agent index, and each
\* agent's assignments have non-decreasing arrive, every arrive at least the
\* depart of the agent's previous assignment.
C22_ScheduleOrdered ==
    [][pc = "optimized" => ScheduleOrdered(assignments')]_vars

\* Two agents were routed, both make several links and two links of
\* different agents have the same arrive
C22_Witness ==
    /\ pc = "routed"
    /\ plan.num_agents = 2
    /\ \A agent \in {0, 1} :
          Cardinality({k \in 1..Len(assignments) : assignments[k].agent = agent}) >= 2
    /\ \E k \in 1..(Len(assignments) - 1) :
          /\ assignments[k].arrive = assignments[k+1].arrive
          /\ assignments[k].agent # assignments[k+1].agent

\* The list holds every link of g exactly once, as location and link
EveryLinkOnce(g, asss) ==
    /\ Len(asss) = Cardinality(DOMAIN g.edges)
    /\ \A k \in 1..Len(asss) : LinkOf(asss[k]) \in DOMAIN g.edges
    /\ \A e \in DOMAIN g.edges : \E k \in 1..Len(asss) : LinkOf(asss[k]) = e

\* In list order the order attributes of g are 0, 1, ..., M-1
InGivenOrder(g, asss) ==
    \A k \in 1..Len(asss) : g.edges[LinkOf(asss[k])].order = k - 1

\* In list order the order attributes of g ascend along the links of each agent
AgentsInGivenOrder(g, asss) ==
    \A a \in 1..Len(asss) : \A b \in (a+1)..Len(asss) :
        asss[a].agent = asss[b].agent
            => g.edges[LinkOf(asss[a])].order < g.edges[LinkOf(asss[b])].order

\* C23: the assignment list route_agents returns contains every link of the
\* graph exactly once (location the origin, link the destination) and, read
\* in list order, the order attributes the Router was given are 0, 1, ...,
\* M-1, for any number of agents.
C23_AssignmentsInGivenOrder ==
    [][pc = "optimized" => /\ EveryLinkOnce(plan.graph, assignments')
                           /\ InGivenOrder(plan.graph, assignments')]_vars

\* C23 as the code has it: the list contains every link exactly once; with
\* one agent the given order attributes are 0, 1, ..., M-1 in list order,
\* and with several agents they ascend along the links of each agent, while
\* links of different agents may interleave differently from the given order.
C23_EveryLinkOnceAgentsInOrder ==
    [][pc = "optimized" => /\ EveryLinkOnce(plan.graph, assignments')
                           /\ AgentsInGivenOrder(plan.graph, assignments')
                           /\ (plan.num_agents = 1
                                  => InGivenOrder(plan.graph, assignments'))]_vars

\* Two agents were routed and a link of one agent is listed between two
\* links the other agent makes one after the other at the same origin
C23_Witness ==
    /\ pc = "routed"
    /\ plan.num_agents = 2
    /\ \E k \in 1..Len(assignments) : \E j \in (k+2)..Len(assignments) :
          /\ assignments[k].agent = assignments[j].agent
          /\ assignments[k].location = assignments[j].location
          /\ assignments[j].arrive = assignments[k].depart
          /\ \E m \in (k+1)..(j-1) :
                /\ assignments[m].agent # assignments[k].agent
                /\ assignments[m].location # assignments[k].location

\* A generate call starts: the step from "returned" to make_fields
CallStarts == pc = "returned" /\ pc' = "make_fields"

\* The seed graph of the plan: no edge, no link_order, no firstgen_fields
IsSeed(g) == DOMAIN g.edges = {} /\ g.link_order = <<>> /\ g.firstgen_fields = <<>>

\* C24: each generate call works on its own deep copy of the seed graph:
\* whatever sequence of generate calls runs, succeeding or failing, no step
\* changes the Plan's seed graph, perim_portals, portals_gno or portals_dists,
\* every call starts on a graph without any edge, link_order or
\* firstgen_fields of an earlier call, and the graphs earlier calls returned
\* are not changed by a later one.
C24_GenerateCallsIsolated ==
    [][/\ plan' = plan
       /\ IsSeed(plan.graph)
       /\ CallStarts => graph' = plan.graph /\ IsSeed(graph')
       /\ \A k \in 1..Len(results) : results'[k] = results[k]]_vars

\* A third call is adding links after one call found no solution and
\* another returned its graph
C24_Witness ==
    /\ Len(results) = 2
    /\ \E k \in {1, 2} : results[k].returned = "tuple"
    /\ \E k \in {1, 2} : /\ results[k].returned = "graph"
                         /\ DOMAIN results[k].graph.edges # {}
    /\ pc = "make_fields"
    /\ DOMAIN graph.edges # {}
    /\ IsSeed(plan.graph)

\* generate returned the graph of a plan whose hull is one triangle around
\* one portal
TriangleAroundOne ==
    /\ pc = "generated"
    /\ Len(plan.perim_portals) = 3
    /\ Cardinality(DOMAIN plan.portals_gno) = 4

\* The links of g that originate at the portal
OutDegree(g, portal) == Cardinality(OutEdges(g, portal))

\* The first vertex of the outer triangle, and the other hull portals
Anchor(g) == g.firstgen_fields[1].vertices[1]

\* C25: for three hull portals with one portal strictly inside the triangle
\* (scenario S2), every successful fielding yields 6 links and 4 fields, with
\* exactly three links originating at the anchor vertex of the outer
\* triangle and the other three originating at other vertices.
C25_ThreeLinksAtAnchor ==
    TriangleAroundOne =>
        /\ graph.num_links = 6
        /\ graph.num_fields = 4
        /\ OutDegree(graph, Anchor(graph)) = 3

\* C25 as the code has it: 6 links and 4 fields; the jet links of the outer
\* triangle lead to its anchor, so exactly one link originates at the anchor
\* (the one to the interior portal), none originates at the interior portal
\* and the other five originate at the two other hull portals.
C25_OneLinkAtAnchor ==
    TriangleAroundOne =>
        /\ graph.num_links = 6
        /\ graph.num_fields = 4
        /\ Len(graph.firstgen_fields) = 1
        /\ OutDegree(graph, Anchor(graph)) = 1
        /\ has_edge(graph, Anchor(graph), graph.firstgen_fields[1].splitter)
        /\ OutDegree(graph, graph.firstgen_fields[1].splitter) = 0
        /\ OutDegree(graph, graph.firstgen_fields[1].vertices[2])
           + OutDegree(graph, graph.firstgen_fields[1].vertices[3]) = 5

\* A fielding of scenario S2 was completed with portal 0 as the anchor
C25_Witness ==
    /\ TriangleAroundOne
    /\ graph.num_links = 6
    /\ Anchor(graph) = 0
    /\ has_edge(graph, 1, 0) /\ has_edge(graph, 2, 0)

\* The number of parts of a line that are among the given ones
CountParts(parts, which) == Cardinality({ k \in 1..Len(parts) : parts[k] \in which })

\* A line with a missing URL, several URLs, several key entries, several
\* SBUL entries, both SBUL and inbound, or an unrecognised token
Malformed(parts) ==
    \/ CountParts(parts, { "pll=1,2", "pll=3,4", "pll" }) # 1
    \/ CountParts(parts, { "0", "2" }) > 1
    \/ CountParts(parts, { "sbul", "SBUL" }) > 1
    \/ CountParts(parts, { "sbul", "SBUL" }) > 0 /\ CountParts(parts, { "inbound" }) > 0
    \/ CountParts(parts, { "portal" }) > 0

\* C26: read_portal_file fails with an error for every portal line that has
\* a missing URL, multiple URLs, multiple key entries, multiple SBUL
\* entries, both SBUL and inbound, or an unrecognised token, whatever the
\* order of the fields after the name and whatever the key values are
\* (including a first key entry of 0).
C26_MalformedLineFails ==
    called.op = "read_portal_line" /\ Malformed(called.parts) => pc = "raised"

\* make_fields has returned True and generate, optimize or route_agents goes on
Fielded ==
    \/ pc = "make_fields" /\ stack = <<>> /\ exc = "none" /\ ret = "True"
    \/ pc \in { "reorder_links_origin", "reorder_links_origin_loop", "reset",
                "reorder_links_depends", "reset_after_move", "finish",
                "generated", "optimized", "routed" }

\* The three edges of the field are in the graph, each in one direction
HasThreeEdges(g, fld) ==
    \A a \in 1..3 : \A b \in (a+1)..3 :
        has_edge(g, fld.vertices[a], fld.vertices[b])
            # has_edge(g, fld.vertices[b], fld.vertices[a])

\* C27: whenever make_fields returns True, every field in the trees under
\* firstgen_fields has all three of its edges in the graph, each in exactly
\* one direction, so assign_fields_to_links never raises 'Field does not
\* have three edges', neither right after fielding nor after any reorder
\* pass or Plan.route_agents.
C27_FieldsHaveThreeEdges ==
    /\ [](Fielded => \A fld \in AllFields(graph) : HasThreeEdges(graph, fld))
    /\ [][Fielded => exc' = "none"]_vars

\* The plan was routed and one of its fields lies inside another
C27_Witness ==
    /\ pc = "routed"
    /\ Len(graph.firstgen_fields) >= 1
    /\ \E fld \in AllFields(graph) :
          /\ fld.children # <<>>
          /\ \A k \in 1..3 : HasThreeEdges(graph, fld.children[k])

\* The link e of g is not reversible and h holds it as it is in g, or holds
\* no link between its two portals
KeepsDirection(g, h, e) ==
    /\ <<e[2], e[1]>> \notin DOMAIN h.edges
    /\ e \in DOMAIN h.edges => ~h.edges[e].reversible

\* C28: an edge's direction is changed only if its reversible attribute is
\* true: across add_link calls, Fielder.reset calls and the origin-grouping
\* pass, an edge added with reversible=False keeps the origin and the
\* destination it was added with for as long as it exists.
C28_NonReversibleKeepsDirection ==
    [][\A e \in DOMAIN graph.edges :
          ~graph.edges[e].reversible => KeepsDirection(graph, graph', e)]_vars

\* An add_link call has reversed a link of a graph that holds a link that is
\* not reversible
C28_Witness ==
    /\ called.op = "add_link"
    /\ \E e \in DOMAIN called.graph.edges :
          e \notin DOMAIN graph.edges /\ <<e[2], e[1]>> \in DOMAIN graph.edges
    /\ \E e \in DOMAIN called.graph.edges :
          ~called.graph.edges[e].reversible /\ e \in DOMAIN graph.edges

\* The top-level make_fields call has returned True
MakeFieldsSucceeded == pc = "make_fields" /\ stack = <<>> /\ exc = "none" /\ ret = "True"

\* The link joins two vertices of a field in the trees under firstgen_fields
InSomeField(g, e) == \E fld \in AllFields(g) : In(e[1], fld.vertices) /\ In(e[2], fld.vertices)

\* C29: when make_fields returns True for a hull of h >= 3 portals, no
\* residue of abandoned attempts is left: firstgen_fields holds exactly h-2
\* root fields, and the edges of the graph are exactly the edges of the
\* triangles in those field trees.
C29_NoResidue ==
    MakeFieldsSucceeded =>
        /\ Len(graph.firstgen_fields) = Len(plan.perim_portals) - 2
        /\ \A e \in DOMAIN graph.edges : InSomeField(graph, e)
        /\ \A fld \in AllFields(graph) : HasThreeEdges(graph, fld)
        /\ Len(graph.link_order) = Cardinality(DOMAIN graph.edges)

\* make_fields returned True on a hull of four portals: two root fields
\* without children on five links
C29_Witness ==
    /\ MakeFieldsSucceeded
    /\ Len(plan.perim_portals) = 4
    /\ Len(graph.firstgen_fields) = 2
    /\ \A k \in 1..2 : graph.firstgen_fields[k].children = <<>>
    /\ Cardinality(DOMAIN graph.edges) = 5

====
